---- MODULE Spec2Model ----
(***************************************************************************)
(* Verification model of tools/rpg_content_cli: the content-pack           *)
(* validators, the JSON path engine, the quest-prerequisite cycle search   *)
(* and the command handlers that load, mutate, validate and persist.       *)
(*                                                                         *)
(* Documents are trees over the JSON variant {null, bool, int, str, map,   *)
(* seq}; every value is a tagged record [t, v] so that values of different *)
(* kinds can be compared.  Python exceptions are modelled as an "err"      *)
(* field of the value an operation returns.                                *)
(***************************************************************************)
EXTENDS Integers, Sequences, FiniteSets, TLC

VARIABLES
    disk,       \* the four pack files on disk: [quests, items, recipes, store]
    last,       \* what the last CLI invocation did (outcome, packs written, ...)
    pdoc,       \* path engine: the in-memory target document
    plast,      \* path engine: the last set_by_path / delete_by_path call
    vpacks,     \* validators: the packs under validation
    vout,       \* validators: what the last validator call returned
    quests_in,  \* cycle search: the quests list handed to _find_circular_quest_deps
    dfs         \* cycle search: deps, visited, rec_stack, path, cycles, call stack

vars == <<disk, last, pdoc, plast, vpacks, vout, quests_in, dfs>>

-----------------------------------------------------------------------------
(* The JSON document model.                                                *)

JNull == [t |-> "null", v |-> 0]
JBool(b) == [t |-> "bool", v |-> b]
JInt(n) == [t |-> "int", v |-> n]
JStr(s) == [t |-> "str", v |-> s]
JMap(f) == [t |-> "map", v |-> f]
JSeq(s) == [t |-> "seq", v |-> s]

\* A map built from <<key, value>> pairs; a later pair overrides an earlier one.
Obj(pairs) ==
    JMap([k \in {pairs[i][1] : i \in DOMAIN pairs} |->
            pairs[CHOOSE i \in DOMAIN pairs :
                    /\ pairs[i][1] = k
                    /\ \A j \in DOMAIN pairs : pairs[j][1] = k => j <= i][2]])

EmptyObj == Obj(<<>>)
EmptyArr == JSeq(<<>>)

IsDict(x) == x.t = "map"
IsList(x) == x.t = "seq"
IsStr(x) == x.t = "str"

\* dict.get(key, default)
GetOr(m, key, default) == IF key \in DOMAIN m.v THEN m.v[key] ELSE default
\* dict.get(key)
Get(m, key) == GetOr(m, key, JNull)
\* m[key] = value
Put(m, key, value) ==
    JMap([k \in (DOMAIN m.v) \cup {key} |-> IF k = key THEN value ELSE m.v[k]])
\* del m[key]
Del(m, key) == JMap([k \in (DOMAIN m.v) \ {key} |-> m.v[k]])
\* s[i] = value, i zero-based
SeqPut(s, i, value) == JSeq([s.v EXCEPT ![i + 1] = value])
\* s.pop(i), i zero-based
SeqPop(s, i) == JSeq(SubSeq(s.v, 1, i) \o SubSeq(s.v, i + 2, Len(s.v)))
\* s.append(value)
SeqAppend(s, value) == JSeq(Append(s.v, value))

-----------------------------------------------------------------------------
(* The path engine (persistence/repositories.py).  A path string is a      *)
(* sequence of symbols: ".", "[", "]", " ", a digit, "-", "^2" (the one    *)
(* character U+00B2, superscript two), or a run of ordinary key characters *)
(* written as one symbol ("steps").                                        *)

Digits == {"0", "1", "2", "3", "4", "5", "6", "7", "8", "9"}
DigitVal(c) ==
    CASE c = "0" -> 0 [] c = "1" -> 1 [] c = "2" -> 2 [] c = "3" -> 3 [] c = "4" -> 4
      [] c = "5" -> 5 [] c = "6" -> 6 [] c = "7" -> 7 [] c = "8" -> 8 [] c = "9" -> 9

Key(s) == [isKey |-> TRUE, key |-> s, idx |-> 0]
Idx(n) == [isKey |-> FALSE, key |-> "", idx |-> n]

\* path.find(ch, from): the 1-based position of the first ch at or after from, 0 if none
RECURSIVE Find(_, _, _)
Find(path, ch, from) ==
    IF from > Len(path) THEN 0
    ELSE IF path[from] = ch THEN from
    ELSE Find(path, ch, from + 1)

\* characters str.isdigit() accepts and int() rejects
Superscripts == {"^2"}

\* raw_index.isdigit()
IsDigit(raw) == Len(raw) > 0 /\ \A i \in DOMAIN raw : raw[i] \in Digits \cup Superscripts

\* int(raw_index) returns (it raises ValueError otherwise)
IntParses(raw) == Len(raw) > 0 /\ \A i \in DOMAIN raw : raw[i] \in Digits

\* int(raw_index)
RECURSIVE ToInt(_)
ToInt(raw) ==
    IF raw = <<>> THEN 0
    ELSE 10 * ToInt(SubSeq(raw, 1, Len(raw) - 1)) + DigitVal(raw[Len(raw)])

\* path.strip() is empty
IsBlank(path) == \A i \in DOMAIN path : path[i] = " "

Flush(tokens, key_buffer) ==
    IF key_buffer # "" THEN Append(tokens, Key(key_buffer)) ELSE tokens

\* the while loop of parse_path_tokens, from position index (1-based)
RECURSIVE ScanPath(_, _, _, _)
ScanPath(path, index, tokens, key_buffer) ==
    IF index > Len(path) THEN
        LET all == Flush(tokens, key_buffer) IN
        IF all = <<>> THEN [err |-> "InvalidPathError", tokens |-> <<>>]
        ELSE [err |-> "none", tokens |-> all]
    ELSE IF path[index] = "." THEN
        ScanPath(path, index + 1, Flush(tokens, key_buffer), "")
    ELSE IF path[index] = "[" THEN
        LET closing == Find(path, "]", index)
            raw_index == SubSeq(path, index + 1, closing - 1)
        IN  IF closing = 0 THEN [err |-> "InvalidPathError", tokens |-> <<>>]
            ELSE IF ~IsDigit(raw_index) THEN [err |-> "InvalidPathError", tokens |-> <<>>]
            ELSE IF ~IntParses(raw_index) THEN [err |-> "ValueError", tokens |-> <<>>]
            ELSE ScanPath(path, closing + 1,
                          Append(Flush(tokens, key_buffer), Idx(ToInt(raw_index))), "")
    ELSE ScanPath(path, index + 1, tokens, key_buffer \o path[index])

parse_path_tokens(path) ==
    IF IsBlank(path) THEN [err |-> "InvalidPathError", tokens |-> <<>>]
    ELSE ScanPath(path, 1, <<>>, "")

\* mutant: the descent puts a fresh container under every string token
ensure_container_Overwrites(target, token, next_token) ==
    IF token.isKey THEN
        IF target.t # "map" THEN [err |-> "PathAccessError", target |-> target, child |-> [t |-> "null", v |-> 0]]
        ELSE LET fresh == IF ~next_token.isKey THEN [t |-> "seq", v |-> <<>>]
                          ELSE [t |-> "map", v |-> <<>>]
                 made == [t |-> "map",
                          v |-> [k \in DOMAIN target.v \cup {token.key} |->
                                    IF k = token.key THEN fresh ELSE target.v[k]]]
             IN [err |-> "none", target |-> made, child |-> fresh]
    ELSE
        IF target.t # "seq" THEN [err |-> "PathAccessError", target |-> target, child |-> [t |-> "null", v |-> 0]]
        ELSE IF token.idx < 0 \/ token.idx >= Len(target.v)
        THEN [err |-> "PathAccessError", target |-> target, child |-> [t |-> "null", v |-> 0]]
        ELSE [err |-> "none", target |-> target, child |-> target.v[token.idx + 1]]

\* _ensure_container: the target after the call (a container may have been
\* materialized in it), and the child the cursor moves to
ensure_container(target, token, next_token) ==
    IF token.isKey THEN
        IF ~IsDict(target) THEN [err |-> "PathAccessError", target |-> target, child |-> JNull]
        ELSE LET made ==
                    IF token.key \notin DOMAIN target.v \/ target.v[token.key] = JNull
                    THEN Put(target, token.key,
                             IF ~next_token.isKey THEN EmptyArr ELSE EmptyObj)
                    ELSE target
             IN [err |-> "none", target |-> made, child |-> made.v[token.key]]
    ELSE
        IF ~IsList(target) THEN [err |-> "PathAccessError", target |-> target, child |-> JNull]
        ELSE IF token.idx < 0 \/ token.idx >= Len(target.v)
        THEN [err |-> "PathAccessError", target |-> target, child |-> JNull]
        ELSE [err |-> "none", target |-> target, child |-> target.v[token.idx + 1]]

\* cursor[token] = child, written back into the tree after the child was changed in place
Rebind(target, token, child) ==
    IF token.isKey THEN Put(target, token.key, child) ELSE SeqPut(target, token.idx, child)

\* mutant: the leaf write keeps a key that is already there (dict.setdefault)
SetLeaf_KeepsExisting(cursor, leaf, value) ==
    IF leaf.isKey THEN
        IF ~IsDict(cursor) THEN [err |-> "PathAccessError", doc |-> cursor]
        ELSE [err |-> "none",
              doc |-> IF leaf.key \in DOMAIN cursor.v THEN cursor
                      ELSE Put(cursor, leaf.key, value)]
    ELSE
        IF ~IsList(cursor) THEN [err |-> "PathAccessError", doc |-> cursor]
        ELSE IF leaf.idx < 0 \/ leaf.idx >= Len(cursor.v)
        THEN [err |-> "PathAccessError", doc |-> cursor]
        ELSE [err |-> "none", doc |-> SeqPut(cursor, leaf.idx, value)]

\* mutant: an index equal to the length appends instead of failing
SetLeaf_Appends(cursor, leaf, value) ==
    IF leaf.isKey THEN
        IF ~IsDict(cursor) THEN [err |-> "PathAccessError", doc |-> cursor]
        ELSE [err |-> "none", doc |-> Put(cursor, leaf.key, value)]
    ELSE
        IF ~IsList(cursor) THEN [err |-> "PathAccessError", doc |-> cursor]
        ELSE IF leaf.idx = Len(cursor.v) THEN [err |-> "none", doc |-> SeqAppend(cursor, value)]
        ELSE IF leaf.idx < 0 \/ leaf.idx > Len(cursor.v)
        THEN [err |-> "PathAccessError", doc |-> cursor]
        ELSE [err |-> "none", doc |-> SeqPut(cursor, leaf.idx, value)]

\* the leaf assignment of set_by_path
SetLeaf(cursor, leaf, value) ==
    IF leaf.isKey THEN
        IF ~IsDict(cursor) THEN [err |-> "PathAccessError", doc |-> cursor]
        ELSE [err |-> "none", doc |-> Put(cursor, leaf.key, value)]
    ELSE
        IF ~IsList(cursor) THEN [err |-> "PathAccessError", doc |-> cursor]
        ELSE IF leaf.idx < 0 \/ leaf.idx >= Len(cursor.v)
        THEN [err |-> "PathAccessError", doc |-> cursor]
        ELSE [err |-> "none", doc |-> SeqPut(cursor, leaf.idx, value)]

\* mutant: deleting a key that is absent is a silent no-op (dict.pop(leaf, None))
DeleteLeaf_Silent(cursor, leaf) ==
    IF leaf.isKey THEN
        IF ~IsDict(cursor) THEN [err |-> "PathAccessError", doc |-> cursor]
        ELSE IF leaf.key \notin DOMAIN cursor.v THEN [err |-> "none", doc |-> cursor]
        ELSE [err |-> "none", doc |-> Del(cursor, leaf.key)]
    ELSE
        IF ~IsList(cursor) THEN [err |-> "PathAccessError", doc |-> cursor]
        ELSE IF leaf.idx < 0 \/ leaf.idx >= Len(cursor.v)
        THEN [err |-> "PathAccessError", doc |-> cursor]
        ELSE [err |-> "none", doc |-> SeqPop(cursor, leaf.idx)]

\* the leaf removal of delete_by_path
DeleteLeaf(cursor, leaf) ==
    IF leaf.isKey THEN
        IF ~IsDict(cursor) THEN [err |-> "PathAccessError", doc |-> cursor]
        ELSE IF leaf.key \notin DOMAIN cursor.v THEN [err |-> "PathAccessError", doc |-> cursor]
        ELSE [err |-> "none", doc |-> Del(cursor, leaf.key)]
    ELSE
        IF ~IsList(cursor) THEN [err |-> "PathAccessError", doc |-> cursor]
        ELSE IF leaf.idx < 0 \/ leaf.idx >= Len(cursor.v)
        THEN [err |-> "PathAccessError", doc |-> cursor]
        ELSE [err |-> "none", doc |-> SeqPop(cursor, leaf.idx)]

\* the descent loop shared by set_by_path and delete_by_path: walk tokens[:-1]
\* with _ensure_container, then apply the leaf operation (op = "set" / "delete").
\* The document returned is the target as the call leaves it, also on failure.
RECURSIVE Descend(_, _, _, _)
Descend(cursor, tokens, op, value) ==
    IF Len(tokens) = 1 THEN
        IF op = "set" THEN SetLeaf(cursor, tokens[1], value)
        ELSE DeleteLeaf(cursor, tokens[1])
    ELSE
        LET step == ensure_container(cursor, tokens[1], tokens[2]) IN
        IF step.err # "none" THEN [err |-> step.err, doc |-> step.target]
        ELSE LET sub == Descend(step.child, Tail(tokens), op, value)
             IN [err |-> sub.err, doc |-> Rebind(step.target, tokens[1], sub.doc)]

set_by_path(target, path, value) ==
    LET parsed == parse_path_tokens(path) IN
    IF parsed.err # "none" THEN [err |-> parsed.err, doc |-> target]
    ELSE Descend(target, parsed.tokens, "set", value)

\* mutant: a delete that fails hands the document back as it received it
delete_by_path_Restores(target, path) ==
    LET parsed == parse_path_tokens(path)
        r == Descend(target, parsed.tokens, "delete", JNull)
    IN  IF parsed.err # "none" THEN [err |-> parsed.err, doc |-> target]
        ELSE IF r.err # "none" THEN [err |-> r.err, doc |-> target]
        ELSE r

delete_by_path(target, path) ==
    LET parsed == parse_path_tokens(path) IN
    IF parsed.err # "none" THEN [err |-> parsed.err, doc |-> target]
    ELSE Descend(target, parsed.tokens, "delete", JNull)

-----------------------------------------------------------------------------
(* Python value semantics the validators rely on.                          *)

\* a float, held as the number of tenths (1.5 is JFloat(15))
JFloat(tenths) == [t |-> "float", v |-> tenths]

\* isinstance(x, int): a bool is an int in Python
PyIsInt(x) == x.t \in {"int", "bool"}
\* isinstance(x, (int, float))
PyIsNumber(x) == x.t \in {"int", "bool", "float"}
\* the number a bool or an int stands for
PyInt(x) == IF x.t = "bool" THEN (IF x.v THEN 1 ELSE 0) ELSE x.v
\* x == 1
PyEqOne(x) ==
    \/ (x.t = "int" /\ x.v = 1)
    \/ (x.t = "bool" /\ x.v)
    \/ (x.t = "float" /\ x.v = 10)
\* hash(x) raises TypeError: membership of a dict or a list in a set or frozenset
Unhashable(x) == x.t \in {"map", "seq"}
\* x in <frozenset of strings>, for a hashable x
InStrings(x, strings) == x.t = "str" /\ x.v \in strings
\* str(x) inside an f-string
PyStr(x) ==
    CASE x.t = "str" -> x.v
      [] x.t = "null" -> "None"
      [] x.t = "bool" -> (IF x.v THEN "True" ELSE "False")
      [] x.t = "int" -> ToString(x.v)
      [] OTHER -> "<value>"

\* the decimal digits of n
RECURSIVE DecimalChars(_)
DecimalChars(n) ==
    IF n < 10 THEN <<ToString(n)>> ELSE Append(DecimalChars(n \div 10), ToString(n % 10))

\* the ids "q1", "q2", ... of a chain of ChainLen quests and of the
\* requirement of its last quest
ChainLen == 6
ChainId(i) == "q" \o ToString(i)
ChainIds == { ChainId(i) : i \in 1..(ChainLen + 1) }

\* The characters of the strings the model uses where their spelling matters.
CharsOf(s) ==
    CASE s = "" -> <<>>
      [] s = " " -> <<" ">>
      [] s = "qa" -> <<"q", "a">>
      [] s = "qb" -> <<"q", "b">>
      [] s = "qc" -> <<"q", "c">>
      [] s = "ia" -> <<"i", "a">>
      [] s = "ib" -> <<"i", "b">>
      [] s = "ic" -> <<"i", "c">>
      [] s = "ra" -> <<"r", "a">>
      [] s = "rb" -> <<"r", "b">>
      [] s = "coins" -> <<"c", "o", "i", "n", "s">>
      [] s = "ghost_item" -> <<"g", "h", "o", "s", "t", "_", "i", "t", "e", "m">>
      [] s = "unobtainium" -> <<"u", "n", "o", "b", "t", "a", "i", "n", "i", "u", "m">>
      [] s = "pyrite_ore" -> <<"p", "y", "r", "i", "t", "e", "_", "o", "r", "e">>
      [] s = "Bad Id" -> <<"B", "a", "d", " ", "I", "d">>
      [] s = "Ore" -> <<"O", "r", "e">>
      [] s = "A quest" -> <<"A", " ", "q", "u", "e", "s", "t">>
      [] s = "Text" -> <<"T", "e", "x", "t">>
      [] s \in ChainIds ->
            <<"q">> \o DecimalChars(CHOOSE i \in 1..(ChainLen + 1) : ChainId(i) = s)

IdChars ==
    {"a", "b", "c", "d", "e", "f", "g", "h", "i", "j", "k", "l", "m", "n", "o", "p", "q",
     "r", "s", "t", "u", "v", "w", "x", "y", "z", "_"} \cup Digits

\* ID_REGEX.fullmatch(s): ^[a-z0-9_]+$
ID_REGEX(s) == LET cs == CharsOf(s) IN Len(cs) > 0 /\ \A i \in DOMAIN cs : cs[i] \in IdChars

is_valid_content_id(value) == IsStr(value) /\ ID_REGEX(value.v)

\* s.strip(), as a truth value: some character is not whitespace
StripNonEmpty(s) == \E i \in DOMAIN CharsOf(s) : CharsOf(s)[i] # " "

\* isinstance(x, str) and x.strip()
NonEmptyString(x) == IsStr(x) /\ StripNonEmpty(x.v)

-----------------------------------------------------------------------------
(* Configuration (config.py).                                              *)

QUEST_DIFFICULTIES == {"easy", "medium", "hard", "expert", "legendary"}
QUEST_REPEAT_KINDS == {"none", "daily", "weekly", "cooldown"}
QUEST_PROFESSIONS == {"miner", "lumber"}
QUEST_STEP_KINDS ==
    {"gather_item", "process_item", "craft_recipe", "market_list_item",
     "market_buy_item", "fight_win"}
GATHER_ACTIONS == {"mine", "forest"}
MARKET_CATEGORIES == {"materials", "consumables", "components", "gear", "tools"}
SortedMarketCategories == "['components', 'consumables', 'gear', 'materials', 'tools']"
TIER_MIN == 1
TIER_MAX == 4

-----------------------------------------------------------------------------
(* What a validator returns: the issues it appended, or the exception      *)
(* (TypeError) that ended it.                                              *)

Issues(list) == [raised |-> FALSE, issues |-> list]
NoIssue == Issues(<<>>)
TypeError == [raised |-> TRUE, issues |-> <<>>]
IssueIf(cond, text) == IF cond THEN Issues(<<text>>) ELSE NoIssue
\* first a, then b, unless a raised
Then(a, b) ==
    IF a.raised THEN a
    ELSE [raised |-> b.raised, issues |-> IF b.raised THEN <<>> ELSE a.issues \o b.issues]
\* "value not in ENUM": TypeError for a dict or a list, else the issue
NotInEnum(value, enum, text) ==
    IF Unhashable(value) THEN TypeError ELSE IssueIf(~InStrings(value, enum), text)

\* _is_int(value, min_value=..., max_value=...)
is_int(value, min_value, has_max, max_value) ==
    /\ value.t = "int"
    /\ value.v >= min_value
    /\ (has_max => value.v <= max_value)

-----------------------------------------------------------------------------
(* Item and recipe validation (validation/schemas.py).                     *)

ValidateMarket(market, path) ==
    IF ~IsDict(market) THEN Issues(<<path \o ".market: expected object">>)
    ELSE
        LET min_price == Get(market, "minPrice")
            max_price == Get(market, "maxPrice")
        IN Then(IssueIf(Get(market, "tradable").t # "bool",
                        path \o ".market.tradable: expected boolean"),
           Then(NotInEnum(Get(market, "category"), MARKET_CATEGORIES,
                          path \o ".market.category: expected one of " \o SortedMarketCategories),
           Then(IssueIf(min_price # JNull /\ ~is_int(min_price, 1, FALSE, 0),
                        path \o ".market.minPrice: expected integer >= 1"),
           Then(IssueIf(max_price # JNull /\ ~is_int(max_price, 1, FALSE, 0),
                        path \o ".market.maxPrice: expected integer >= 1"),
                IssueIf(/\ PyIsInt(min_price) /\ PyIsInt(max_price)
                        /\ PyInt(max_price) < PyInt(min_price),
                        path \o ".market.maxPrice: must be >= minPrice")))))

validate_item(item, path) ==
    IF ~IsDict(item) THEN Issues(<<path \o ": expected object">>)
    ELSE
        LET max_stack == Get(item, "maxStack")
            value == Get(item, "value")
            market == Get(item, "market")
        IN Then(IssueIf(~is_valid_content_id(Get(item, "id")),
                        path \o ".id: invalid id, expected ^[a-z0-9_]+$"),
           Then(IssueIf(~NonEmptyString(Get(item, "name")),
                        path \o ".name: required non-empty string"),
           Then(IssueIf(~NonEmptyString(Get(item, "description")),
                        path \o ".description: required non-empty string"),
           Then(IssueIf(max_stack # JNull /\ ~is_int(max_stack, 1, FALSE, 0),
                        path \o ".maxStack: expected integer >= 1"),
           Then(IssueIf(value # JNull /\ (~PyIsNumber(value) \/ PyInt(value) < 0),
                        path \o ".value: expected number >= 0"),
                IF market # JNull THEN ValidateMarket(market, path) ELSE NoIssue)))))

\* the loop of validate_item_pack reporting a duplicate once for each earlier
\* entry with the same id (one issue per pair)
RECURSIVE ItemPackLoop_PerPair(_, _, _)
ItemPackLoop_PerPair(items, idx, seen_ids) ==
    IF idx >= Len(items) THEN NoIssue
    ELSE
        LET item == items[idx + 1]
            item_path == "$items.items[" \o ToString(idx) \o "]"
        IN  IF ~IsDict(item)
            THEN Then(Issues(<<item_path \o ": expected object">>),
                      ItemPackLoop_PerPair(items, idx + 1, seen_ids))
            ELSE
                LET item_id == Get(item, "id")
                    valid == is_valid_content_id(item_id)
                    earlier == {j \in 1..idx : IsDict(items[j]) /\ Get(items[j], "id") = item_id}
                IN Then(IF valid
                        THEN Issues([j \in 1..Cardinality(earlier) |->
                                        item_path \o ".id: duplicate id '" \o PyStr(item_id) \o "'"])
                        ELSE NoIssue,
                   Then(validate_item(item, item_path),
                        ItemPackLoop_PerPair(items, idx + 1, seen_ids)))

\* the loop of validate_item_pack, from entry idx (zero-based)
RECURSIVE ItemPackLoop(_, _, _)
ItemPackLoop(items, idx, seen_ids) ==
    IF idx >= Len(items) THEN NoIssue
    ELSE
        LET item == items[idx + 1]
            item_path == "$items.items[" \o ToString(idx) \o "]"
        IN  IF ~IsDict(item)
            THEN Then(Issues(<<item_path \o ": expected object">>),
                      ItemPackLoop(items, idx + 1, seen_ids))
            ELSE
                LET item_id == Get(item, "id")
                    valid == is_valid_content_id(item_id)
                IN Then(IssueIf(valid /\ item_id.v \in seen_ids,
                                item_path \o ".id: duplicate id '" \o PyStr(item_id) \o "'"),
                   Then(validate_item(item, item_path),
                        ItemPackLoop(items, idx + 1,
                                     IF valid THEN seen_ids \cup {item_id.v} ELSE seen_ids)))

validate_item_pack(items_pack) ==
    IF ~IsDict(items_pack) THEN Issues(<<"$items: root must be an object">>)
    ELSE
        LET items == Get(items_pack, "items") IN
        Then(IssueIf(~PyEqOne(Get(items_pack, "schemaVersion")),
                     "$items.schemaVersion: expected 1"),
             IF ~IsList(items) THEN Issues(<<"$items.items: expected an array">>)
             ELSE ItemPackLoop(items.v, 0, {}))

\* the loop of validate_recipe_pack, from entry idx (zero-based)
RECURSIVE RecipePackLoop(_, _, _)
RecipePackLoop(recipes, idx, seen_ids) ==
    IF idx >= Len(recipes) THEN NoIssue
    ELSE
        LET recipe == recipes[idx + 1]
            recipe_path == "$recipes.recipes[" \o ToString(idx) \o "]"
        IN  IF ~IsDict(recipe)
            THEN Then(Issues(<<recipe_path \o ": expected object">>),
                      RecipePackLoop(recipes, idx + 1, seen_ids))
            ELSE IF ~is_valid_content_id(Get(recipe, "id"))
            THEN Then(Issues(<<recipe_path \o ".id: invalid id">>),
                      RecipePackLoop(recipes, idx + 1, seen_ids))
            ELSE
                LET recipe_id == Get(recipe, "id").v IN
                Then(IssueIf(recipe_id \in seen_ids,
                             recipe_path \o ".id: duplicate id '" \o recipe_id \o "'"),
                     RecipePackLoop(recipes, idx + 1, seen_ids \cup {recipe_id}))

validate_recipe_pack(recipes_pack) ==
    IF ~IsDict(recipes_pack) THEN Issues(<<"$recipes: root must be an object">>)
    ELSE
        LET recipes == Get(recipes_pack, "recipes") IN
        Then(IssueIf(~PyEqOne(Get(recipes_pack, "schemaVersion")),
                     "$recipes.schemaVersion: expected 1"),
             IF ~IsList(recipes) THEN Issues(<<"$recipes.recipes: expected an array">>)
             ELSE RecipePackLoop(recipes.v, 0, {}))

-----------------------------------------------------------------------------
(* Quest step validation (validation/schemas.py).                          *)

\* the reference check without the lookup: only the format of the id is checked
CheckRef_FormatOnly(ref, path, what, known_ids) ==
    IssueIf(~is_valid_content_id(ref), path \o ": invalid " \o what \o " id")

\* "<field>: invalid <what> id" / "unknown <what> '<id>'" for a required reference
CheckRef(ref, path, what, known_ids) ==
    IF ~is_valid_content_id(ref) THEN Issues(<<path \o ": invalid " \o what \o " id">>)
    ELSE IssueIf(ref.v \notin known_ids, path \o ": unknown " \o what \o " '" \o ref.v \o "'")

TierIssue(step, path, key) ==
    LET value == Get(step, key) IN
    IssueIf(value # JNull /\ ~is_int(value, TIER_MIN, TRUE, TIER_MAX),
            path \o "." \o key \o ": expected integer between " \o ToString(TIER_MIN)
                 \o " and " \o ToString(TIER_MAX))

\* _validate_gather_step without the comparison of the two location tiers
validate_gather_step_Unordered(step, path, item_ids) ==
    Then(NotInEnum(Get(step, "action"), GATHER_ACTIONS,
                   path \o ".action: expected 'mine' or 'forest'"),
    Then(CheckRef(Get(step, "itemId"), path \o ".itemId", "item", item_ids),
    Then(TierIssue(step, path, "locationTierMin"),
    Then(TierIssue(step, path, "locationTierMax"),
         TierIssue(step, path, "toolTierMin")))))

validate_gather_step(step, path, item_ids) ==
    LET tier_min == Get(step, "locationTierMin")
        tier_max == Get(step, "locationTierMax")
    IN Then(NotInEnum(Get(step, "action"), GATHER_ACTIONS,
                      path \o ".action: expected 'mine' or 'forest'"),
       Then(CheckRef(Get(step, "itemId"), path \o ".itemId", "item", item_ids),
       Then(TierIssue(step, path, "locationTierMin"),
       Then(TierIssue(step, path, "locationTierMax"),
       Then(TierIssue(step, path, "toolTierMin"),
            IssueIf(/\ PyIsInt(tier_min) /\ PyIsInt(tier_max)
                    /\ PyInt(tier_max) < PyInt(tier_min),
                    path \o ".locationTierMax: must be >= locationTierMin"))))))

validate_process_step(step, path, item_ids) ==
    LET output_item == Get(step, "outputItemId")
        success_only == Get(step, "successOnly")
    IN Then(CheckRef(Get(step, "inputItemId"), path \o ".inputItemId", "item", item_ids),
       Then(IF output_item # JNull
            THEN CheckRef(output_item, path \o ".outputItemId", "item", item_ids)
            ELSE NoIssue,
            IssueIf(success_only # JNull /\ success_only.t # "bool",
                    path \o ".successOnly: expected boolean")))

validate_craft_step(step, path, recipe_ids) ==
    CheckRef(Get(step, "recipeId"), path \o ".recipeId", "recipe", recipe_ids)

validate_market_step(step, path, item_ids) ==
    CheckRef(Get(step, "itemId"), path \o ".itemId", "item", item_ids)

\* mutant: qty is checked before the kind is looked at
validate_step_QtyFirst(step, path, item_ids, recipe_ids) ==
    IF ~IsDict(step) THEN Issues(<<path \o ": step must be an object">>)
    ELSE
        LET kind == Get(step, "kind") IN
        IF Unhashable(kind) THEN TypeError
        ELSE Then(IssueIf(~is_int(Get(step, "qty"), 1, FALSE, 0),
                          path \o ".qty: expected integer >= 1"),
                  IF ~InStrings(kind, QUEST_STEP_KINDS)
                  THEN Issues(<<path \o ".kind: invalid step kind '" \o PyStr(kind) \o "'">>)
                  ELSE CASE kind.v = "gather_item" -> validate_gather_step(step, path, item_ids)
                         [] kind.v = "process_item" -> validate_process_step(step, path, item_ids)
                         [] kind.v = "craft_recipe" -> validate_craft_step(step, path, recipe_ids)
                         [] kind.v \in {"market_list_item", "market_buy_item"} ->
                                 validate_market_step(step, path, item_ids)
                         [] OTHER -> NoIssue)

validate_step(step, path, item_ids, recipe_ids) ==
    IF ~IsDict(step) THEN Issues(<<path \o ": step must be an object">>)
    ELSE
        LET kind == Get(step, "kind") IN
        IF Unhashable(kind) THEN TypeError
        ELSE IF ~InStrings(kind, QUEST_STEP_KINDS)
        THEN Issues(<<path \o ".kind: invalid step kind '" \o PyStr(kind) \o "'">>)
        ELSE Then(IssueIf(~is_int(Get(step, "qty"), 1, FALSE, 0),
                          path \o ".qty: expected integer >= 1"),
                  CASE kind.v = "gather_item" -> validate_gather_step(step, path, item_ids)
                    [] kind.v = "process_item" -> validate_process_step(step, path, item_ids)
                    [] kind.v = "craft_recipe" -> validate_craft_step(step, path, recipe_ids)
                    [] kind.v \in {"market_list_item", "market_buy_item"} ->
                            validate_market_step(step, path, item_ids)
                    [] OTHER -> NoIssue)

-----------------------------------------------------------------------------
(* Quest validation (validation/schemas.py).                               *)

\* _validate_repeat requiring hours for every repeat kind
validate_repeat_AnyKind(repeat, path) ==
    IF ~IsDict(repeat) THEN Issues(<<path \o ": repeat must be an object">>)
    ELSE
        LET kind == Get(repeat, "kind") IN
        IF Unhashable(kind) THEN TypeError
        ELSE IF ~InStrings(kind, QUEST_REPEAT_KINDS)
        THEN Issues(<<path \o ".kind: invalid repeat kind '" \o PyStr(kind) \o "'">>)
        ELSE IssueIf(~is_int(Get(repeat, "hours"), 1, FALSE, 0),
                     path \o ".hours: cooldown repeat requires integer hours >= 1")

validate_repeat(repeat, path) ==
    IF ~IsDict(repeat) THEN Issues(<<path \o ": repeat must be an object">>)
    ELSE
        LET kind == Get(repeat, "kind") IN
        IF Unhashable(kind) THEN TypeError
        ELSE IF ~InStrings(kind, QUEST_REPEAT_KINDS)
        THEN Issues(<<path \o ".kind: invalid repeat kind '" \o PyStr(kind) \o "'">>)
        ELSE IssueIf(kind.v = "cooldown" /\ ~is_int(Get(repeat, "hours"), 1, FALSE, 0),
                     path \o ".hours: cooldown repeat requires integer hours >= 1")

\* the loop of _validate_prerequisites over requiresQuestsCompleted
RECURSIVE RequiresLoop(_, _, _, _)
RequiresLoop(requires, idx, path, known_quest_ids) ==
    IF idx >= Len(requires) THEN NoIssue
    ELSE
        LET required_id == requires[idx + 1]
            req_path == path \o ".requiresQuestsCompleted[" \o ToString(idx) \o "]"
        IN Then(IF ~is_valid_content_id(required_id)
                THEN Issues(<<req_path \o ": invalid quest id format">>)
                ELSE IssueIf(required_id.v \notin known_quest_ids,
                             req_path \o ": unknown quest '" \o required_id.v \o "'"),
                RequiresLoop(requires, idx + 1, path, known_quest_ids))

validate_prerequisites(prerequisites, path, known_quest_ids) ==
    IF ~IsDict(prerequisites) THEN Issues(<<path \o ": prerequisites must be an object">>)
    ELSE
        LET profession == Get(prerequisites, "profession")
            min_level == Get(prerequisites, "minLevel")
            requires == GetOr(prerequisites, "requiresQuestsCompleted", EmptyArr)
        IN Then(IF profession = JNull THEN NoIssue
                ELSE IF Unhashable(profession) THEN TypeError
                ELSE IssueIf(~InStrings(profession, QUEST_PROFESSIONS),
                             path \o ".profession: invalid profession '"
                                  \o PyStr(profession) \o "'"),
           Then(IssueIf(min_level # JNull /\ ~is_int(min_level, 1, FALSE, 0),
                        path \o ".minLevel: expected integer >= 1"),
                IF ~IsList(requires)
                THEN Issues(<<path \o ".requiresQuestsCompleted: expected an array">>)
                ELSE RequiresLoop(requires.v, 0, path, known_quest_ids)))

\* the loop of _validate_rewards over rewards.currency
RECURSIVE CurrencyLoop(_, _, _)
CurrencyLoop(currency, idx, path) ==
    IF idx >= Len(currency) THEN NoIssue
    ELSE
        LET reward == currency[idx + 1]
            reward_path == path \o ".currency[" \o ToString(idx) \o "]"
        IN Then(IF ~IsDict(reward) THEN Issues(<<reward_path \o ": expected object">>)
                ELSE Then(IssueIf(~is_valid_content_id(Get(reward, "id")),
                                  reward_path \o ".id: invalid currency id"),
                          IssueIf(~is_int(Get(reward, "amount"), 1, FALSE, 0),
                                  reward_path \o ".amount: expected integer >= 1")),
                CurrencyLoop(currency, idx + 1, path))

\* the loop of _validate_rewards over rewards.items
RECURSIVE RewardItemsLoop(_, _, _, _)
RewardItemsLoop(items, idx, path, item_ids) ==
    IF idx >= Len(items) THEN NoIssue
    ELSE
        LET reward == items[idx + 1]
            reward_path == path \o ".items[" \o ToString(idx) \o "]"
        IN Then(IF ~IsDict(reward) THEN Issues(<<reward_path \o ": expected object">>)
                ELSE Then(CheckRef(Get(reward, "itemId"), reward_path \o ".itemId",
                                   "item", item_ids),
                          IssueIf(~is_int(Get(reward, "qty"), 1, FALSE, 0),
                                  reward_path \o ".qty: expected integer >= 1")),
                RewardItemsLoop(items, idx + 1, path, item_ids))

\* _validate_rewards counting a well-shaped xp or tokens of 0 as a reward
validate_rewards_ShapeOnly(rewards, path, item_ids) ==
    IF ~IsDict(rewards) THEN Issues(<<path \o ": rewards must be an object">>)
    ELSE
        LET xp == Get(rewards, "xp")
            tokens == Get(rewards, "tokens")
            currency == GetOr(rewards, "currency", EmptyArr)
            items == GetOr(rewards, "items", EmptyArr)
            has_any_reward ==
                \/ (xp # JNull /\ is_int(xp, 0, FALSE, 0) /\ xp.v >= 0)
                \/ (tokens # JNull /\ is_int(tokens, 0, FALSE, 0) /\ tokens.v >= 0)
                \/ (IsList(currency) /\ currency.v # <<>>)
                \/ (IsList(items) /\ items.v # <<>>)
        IN Then(IssueIf(xp # JNull /\ ~is_int(xp, 0, FALSE, 0),
                        path \o ".xp: expected integer >= 0"),
           Then(IssueIf(tokens # JNull /\ ~is_int(tokens, 0, FALSE, 0),
                        path \o ".tokens: expected integer >= 0"),
           Then(IF currency # JNull /\ ~IsList(currency)
                THEN Issues(<<path \o ".currency: expected an array">>)
                ELSE IF IsList(currency) THEN CurrencyLoop(currency.v, 0, path)
                ELSE NoIssue,
           Then(IF items # JNull /\ ~IsList(items)
                THEN Issues(<<path \o ".items: expected an array">>)
                ELSE IF IsList(items) THEN RewardItemsLoop(items.v, 0, path, item_ids)
                ELSE NoIssue,
                IssueIf(~has_any_reward,
                        path \o ": must contain at least one non-zero reward")))))

validate_rewards(rewards, path, item_ids) ==
    IF ~IsDict(rewards) THEN Issues(<<path \o ": rewards must be an object">>)
    ELSE
        LET xp == Get(rewards, "xp")
            tokens == Get(rewards, "tokens")
            currency == GetOr(rewards, "currency", EmptyArr)
            items == GetOr(rewards, "items", EmptyArr)
            has_any_reward ==
                \/ (xp # JNull /\ is_int(xp, 0, FALSE, 0) /\ xp.v > 0)
                \/ (tokens # JNull /\ is_int(tokens, 0, FALSE, 0) /\ tokens.v > 0)
                \/ (IsList(currency) /\ currency.v # <<>>)
                \/ (IsList(items) /\ items.v # <<>>)
        IN Then(IssueIf(xp # JNull /\ ~is_int(xp, 0, FALSE, 0),
                        path \o ".xp: expected integer >= 0"),
           Then(IssueIf(tokens # JNull /\ ~is_int(tokens, 0, FALSE, 0),
                        path \o ".tokens: expected integer >= 0"),
           Then(IF currency # JNull /\ ~IsList(currency)
                THEN Issues(<<path \o ".currency: expected an array">>)
                ELSE IF IsList(currency) THEN CurrencyLoop(currency.v, 0, path)
                ELSE NoIssue,
           Then(IF items # JNull /\ ~IsList(items)
                THEN Issues(<<path \o ".items: expected an array">>)
                ELSE IF IsList(items) THEN RewardItemsLoop(items.v, 0, path, item_ids)
                ELSE NoIssue,
                IssueIf(~has_any_reward,
                        path \o ": must contain at least one non-zero reward")))))

\* the loop of validate_quest over steps
RECURSIVE StepsLoop(_, _, _, _, _)
StepsLoop(steps, step_idx, path, item_ids, recipe_ids) ==
    IF step_idx >= Len(steps) THEN NoIssue
    ELSE Then(validate_step(steps[step_idx + 1],
                            path \o ".steps[" \o ToString(step_idx) \o "]",
                            item_ids, recipe_ids),
              StepsLoop(steps, step_idx + 1, path, item_ids, recipe_ids))

validate_quest(quest, path, quest_ids, item_ids, recipe_ids) ==
    IF ~IsDict(quest) THEN Issues(<<path \o ": expected object">>)
    ELSE
        LET enabled == Get(quest, "enabled")
            repeat == GetOr(quest, "repeat", Obj(<< <<"kind", JStr("none")>> >>))
            prerequisites == Get(quest, "prerequisites")
            steps == Get(quest, "steps")
        IN Then(IssueIf(~NonEmptyString(Get(quest, "title")),
                        path \o ".title: required non-empty string"),
           Then(IssueIf(~NonEmptyString(Get(quest, "description")),
                        path \o ".description: required non-empty string"),
           Then(NotInEnum(GetOr(quest, "difficulty", JStr("easy")), QUEST_DIFFICULTIES,
                          path \o ".difficulty: invalid difficulty"),
           Then(IssueIf(enabled # JNull /\ enabled.t # "bool",
                        path \o ".enabled: expected boolean"),
           Then(validate_repeat(repeat, path \o ".repeat"),
           Then(IF prerequisites # JNull
                THEN validate_prerequisites(prerequisites, path \o ".prerequisites", quest_ids)
                ELSE NoIssue,
           Then(IF ~IsList(steps) \/ steps.v = <<>>
                THEN Issues(<<path \o ".steps: expected non-empty array">>)
                ELSE StepsLoop(steps.v, 0, path, item_ids, recipe_ids),
                validate_rewards(Get(quest, "rewards"), path \o ".rewards", item_ids))))))))

\* first pass of validate_quest_pack: the issues and the quest ids collected
RECURSIVE CollectQuestIds(_, _, _)
CollectQuestIds(quests, idx, quest_ids) ==
    IF idx >= Len(quests) THEN [issues |-> <<>>, quest_ids |-> quest_ids]
    ELSE
        LET quest == quests[idx + 1]
            quest_path == "$quests.quests[" \o ToString(idx) \o "]"
            quest_id == Get(quest, "id")
            here ==
                IF ~IsDict(quest) THEN <<quest_path \o ": expected object">>
                ELSE IF ~is_valid_content_id(quest_id)
                THEN <<quest_path \o ".id: invalid id, expected ^[a-z0-9_]+$">>
                ELSE IF quest_id.v \in quest_ids
                THEN <<quest_path \o ".id: duplicate id '" \o quest_id.v \o "'">>
                ELSE <<>>
            rest == CollectQuestIds(quests, idx + 1,
                        IF IsDict(quest) /\ is_valid_content_id(quest_id)
                        THEN quest_ids \cup {quest_id.v} ELSE quest_ids)
        IN [issues |-> here \o rest.issues, quest_ids |-> rest.quest_ids]

\* second pass of validate_quest_pack
RECURSIVE QuestContentsLoop(_, _, _, _, _)
QuestContentsLoop(quests, idx, quest_ids, item_ids, recipe_ids) ==
    IF idx >= Len(quests) THEN NoIssue
    ELSE Then(IF ~IsDict(quests[idx + 1]) THEN NoIssue
              ELSE validate_quest(quests[idx + 1],
                                  "$quests.quests[" \o ToString(idx) \o "]",
                                  quest_ids, item_ids, recipe_ids),
              QuestContentsLoop(quests, idx + 1, quest_ids, item_ids, recipe_ids))

\* validate_quest_pack in one pass: each quest is checked against the ids
\* collected from the entries up to and including it
RECURSIVE SinglePassLoop(_, _, _, _)
SinglePassLoop(quests, idx, item_ids, recipe_ids) ==
    IF idx >= Len(quests) THEN NoIssue
    ELSE Then(IF ~IsDict(quests[idx + 1]) THEN NoIssue
              ELSE validate_quest(quests[idx + 1],
                                  "$quests.quests[" \o ToString(idx) \o "]",
                                  CollectQuestIds(SubSeq(quests, 1, idx + 1), 0, {}).quest_ids,
                                  item_ids, recipe_ids),
              SinglePassLoop(quests, idx + 1, item_ids, recipe_ids))

validate_quest_pack_SinglePass(quests_pack, item_ids, recipe_ids) ==
    IF ~IsDict(quests_pack) THEN Issues(<<"$quests: root must be an object">>)
    ELSE
        LET quests == Get(quests_pack, "quests") IN
        Then(IssueIf(~PyEqOne(Get(quests_pack, "schemaVersion")),
                     "$quests.schemaVersion: expected 1"),
             IF ~IsList(quests) THEN Issues(<<"$quests.quests: expected an array">>)
             ELSE Then(Issues(CollectQuestIds(quests.v, 0, {}).issues),
                       SinglePassLoop(quests.v, 0, item_ids, recipe_ids)))

validate_quest_pack(quests_pack, item_ids, recipe_ids) ==
    IF ~IsDict(quests_pack) THEN Issues(<<"$quests: root must be an object">>)
    ELSE
        LET quests == Get(quests_pack, "quests") IN
        Then(IssueIf(~PyEqOne(Get(quests_pack, "schemaVersion")),
                     "$quests.schemaVersion: expected 1"),
             IF ~IsList(quests) THEN Issues(<<"$quests.quests: expected an array">>)
             ELSE LET first == CollectQuestIds(quests.v, 0, {}) IN
                  Then(Issues(first.issues),
                       QuestContentsLoop(quests.v, 0, first.quest_ids, item_ids, recipe_ids)))

\* the ids of the well-formed entries of pack[key]
PackIds(pack, key) ==
    IF IsDict(pack) /\ IsList(Get(pack, key))
    THEN {Get(pack, key).v[i].v["id"].v :
            i \in {j \in DOMAIN Get(pack, key).v :
                    /\ IsDict(Get(pack, key).v[j])
                    /\ is_valid_content_id(Get(Get(pack, key).v[j], "id"))}}
    ELSE {}

validate_packs(quests_pack, items_pack, recipes_pack) ==
    Then(validate_item_pack(items_pack),
    Then(validate_recipe_pack(recipes_pack),
         validate_quest_pack(quests_pack, PackIds(items_pack, "items"),
                             PackIds(recipes_pack, "recipes"))))

-----------------------------------------------------------------------------
(* Store validation (commands/store.py).                                   *)

\* isinstance(x, int) and x >= low, spelt out in _validate_store_pack: a bool passes
StoreInt(x, low) == PyIsInt(x) /\ PyInt(x) >= low

\* the loop of _validate_store_pack, from entry idx (zero-based)
RECURSIVE StorePackLoop(_, _, _, _)
StorePackLoop(items, idx, seen_ids, item_ids) ==
    IF idx >= Len(items) THEN NoIssue
    ELSE
        LET item == items[idx + 1]
            item_path == "$store.items[" \o ToString(idx) \o "]"
        IN  IF ~IsDict(item)
            THEN Then(Issues(<<item_path \o ": expected object">>),
                      StorePackLoop(items, idx + 1, seen_ids, item_ids))
            ELSE
                LET item_id == Get(item, "itemId")
                    valid == is_valid_content_id(item_id)
                    category == Get(item, "category")
                    fresh == valid /\ item_id.v \notin seen_ids /\ item_id.v \in item_ids
                IN Then(IF ~valid THEN Issues(<<item_path \o ".itemId: invalid item id">>)
                        ELSE IF item_id.v \in seen_ids
                        THEN Issues(<<item_path \o ".itemId: duplicate item '" \o item_id.v \o "'">>)
                        ELSE IssueIf(item_id.v \notin item_ids,
                                     item_path \o ".itemId: unknown item '" \o item_id.v \o "'"),
                   Then(IssueIf(~NonEmptyString(Get(item, "name")),
                                item_path \o ".name: required non-empty string"),
                   Then(IssueIf(~StoreInt(Get(item, "buyPrice"), 1),
                                item_path \o ".buyPrice: expected integer >= 1"),
                   Then(IssueIf(~StoreInt(Get(item, "sellPrice"), 1),
                                item_path \o ".sellPrice: expected integer >= 1"),
                   Then(IssueIf(~StoreInt(GetOr(item, "stock", JInt(-1)), -1),
                                item_path \o ".stock: expected integer >= -1"),
                   Then(IssueIf(GetOr(item, "available", JBool(TRUE)).t # "bool",
                                item_path \o ".available: expected boolean"),
                   Then(IF category = JNull THEN NoIssue
                        ELSE NotInEnum(category, MARKET_CATEGORIES,
                                       item_path \o ".category: expected one of "
                                           \o SortedMarketCategories),
                   Then(IssueIf(~StoreInt(GetOr(item, "purchaseLimit", JInt(0)), 0),
                                item_path \o ".purchaseLimit: expected integer >= 0"),
                        StorePackLoop(items, idx + 1,
                                      IF fresh THEN seen_ids \cup {item_id.v} ELSE seen_ids,
                                      item_ids)))))))))

validate_store_pack(store_pack, item_ids) ==
    IF ~IsDict(store_pack) THEN Issues(<<"$store: root must be an object">>)
    ELSE
        LET items == Get(store_pack, "items") IN
        Then(IssueIf(~PyEqOne(Get(store_pack, "schemaVersion")),
                     "$store.schemaVersion: expected 1"),
             IF ~IsList(items) THEN Issues(<<"$store.items: expected an array">>)
             ELSE StorePackLoop(items.v, 0, {}, item_ids))

-----------------------------------------------------------------------------
(* Command-line values (commands/quests.py).  A raw argument is, like a    *)
(* path, a sequence of symbols: a digit, "-", ".", " ", "=", ",", a JSON   *)
(* bracket, a double-quoted word written with its quotes as one symbol     *)
(* ("\"qb\""), or a run of other characters written as one symbol.         *)

\* "".join(symbols)
RECURSIVE Join(_)
Join(symbols) == IF symbols = <<>> THEN "" ELSE Head(symbols) \o Join(Tail(symbols))

\* raw.strip()
RECURSIVE Strip(_)
Strip(raw) ==
    IF raw = <<>> THEN raw
    ELSE IF Head(raw) = " " THEN Strip(Tail(raw))
    ELSE IF raw[Len(raw)] = " " THEN Strip(SubSeq(raw, 1, Len(raw) - 1))
    ELSE raw

\* the word between the quotes of a double-quoted symbol
QuotedWords ==
    [w \in {"\"qa\"", "\"qb\"", "\"qc\""} |->
        CASE w = "\"qa\"" -> "qa" [] w = "\"qb\"" -> "qb" [] w = "\"qc\"" -> "qc"]

\* the members of a JSON array of strings "w1,w2,...]" from position index
RECURSIVE JsonStrings(_, _, _)
JsonStrings(value, index, members) ==
    IF index + 1 > Len(value) \/ value[index] \notin DOMAIN QuotedWords
    THEN [err |-> "JSONDecodeError", members |-> <<>>]
    ELSE LET more == Append(members, JStr(QuotedWords[value[index]])) IN
         IF value[index + 1] = "]" /\ index + 1 = Len(value)
         THEN [err |-> "none", members |-> more]
         ELSE IF value[index + 1] = ","
         THEN JsonStrings(value, index + 2, more)
         ELSE [err |-> "JSONDecodeError", members |-> <<>>]

\* json.loads(value) for the documents the commands are given here: an
\* empty object, an empty array, a quoted word, an array of quoted words;
\* anything else given here is malformed JSON
json_loads(value) ==
    IF value = <<"{", "}">> THEN [err |-> "none", value |-> EmptyObj]
    ELSE IF value = <<"[", "]">> THEN [err |-> "none", value |-> EmptyArr]
    ELSE IF Len(value) = 1 /\ value[1] \in DOMAIN QuotedWords
    THEN [err |-> "none", value |-> JStr(QuotedWords[value[1]])]
    ELSE IF Head(value) = "["
    THEN LET parsed == JsonStrings(value, 2, <<>>) IN
         [err |-> parsed.err, value |-> JSeq(parsed.members)]
    ELSE [err |-> "JSONDecodeError", value |-> JNull]

\* _parse_cli_value(raw)
parse_cli_value(raw) ==
    LET value == Strip(raw)
        word == IF Len(value) = 1 THEN value[1] ELSE ""
        digits == IF value # <<>> /\ Head(value) = "-" THEN Tail(value) ELSE value
        dot == Find(digits, ".", 1)
    IN  IF word \in {"true", "True", "TRUE"} THEN [err |-> "none", value |-> JBool(TRUE)]
        ELSE IF word \in {"false", "False", "FALSE"} THEN [err |-> "none", value |-> JBool(FALSE)]
        ELSE IF word \in {"null", "Null", "NULL"} THEN [err |-> "none", value |-> JNull]
        ELSE IF IsDigit(digits)
        THEN [err |-> "none",
              value |-> JInt(IF digits = value THEN ToInt(digits) ELSE 0 - ToInt(digits))]
        ELSE IF /\ dot > 0
                /\ IsDigit(SubSeq(digits, 1, dot - 1))
                /\ Len(digits) = dot + 1 /\ digits[dot + 1] \in Digits
        THEN [err |-> "none",
              value |-> LET tenths == 10 * ToInt(SubSeq(digits, 1, dot - 1))
                                          + DigitVal(digits[dot + 1])
                        IN JFloat(IF digits = value THEN tenths ELSE 0 - tenths)]
        ELSE IF value # <<>> /\ (Head(value) \in {"{", "["} \/ Head(value) \in DOMAIN QuotedWords)
        THEN LET loaded == json_loads(value) IN
             IF loaded.err # "none" THEN [err |-> "InvalidValueError", value |-> JNull]
             ELSE [err |-> "none", value |-> loaded.value]
        ELSE [err |-> "none", value |-> JStr(Join(raw))]

\* _parse_param_pairs(raw_params), from pair idx (one-based)
RECURSIVE parse_param_pairs(_, _, _)
parse_param_pairs(raw_params, idx, params) ==
    IF idx > Len(raw_params) THEN [err |-> "none", params |-> params]
    ELSE
        LET raw_param == raw_params[idx]
            eq == Find(raw_param, "=", 1)
            key == Join(Strip(SubSeq(raw_param, 1, eq - 1)))
            parsed == parse_cli_value(SubSeq(raw_param, eq + 1, Len(raw_param)))
        IN  IF eq = 0 THEN [err |-> "CliError", params |-> params]
            ELSE IF key = "" THEN [err |-> "CliError", params |-> params]
            ELSE IF parsed.err # "none" THEN [err |-> parsed.err, params |-> params]
            ELSE parse_param_pairs(raw_params, idx + 1, Append(params, <<key, parsed.value>>))

-----------------------------------------------------------------------------
(* The pack files and the commands that mutate them.  A file is held as    *)
(* the document it encodes; disk.store is NoFile while the store file does *)
(* not exist.  A command is an operator from the disk and the arguments to *)
(* a run: the exception that ended it ("none" if it returned), the files   *)
(* as the command leaves them, which files it wrote, which packs its       *)
(* validation pass covered and what that pass reported.                    *)

NoFile == [t |-> "nofile", v |-> 0]

\* an exception that ends the command after the store pack it loaded was saved
Fail_SavesStore(d, e) ==
    [err |-> e, quests |-> d.quests, items |-> d.items,
     store |-> IF d.store.t = "nofile"
               THEN Obj(<< <<"schemaVersion", JInt(1)>>, <<"items", EmptyArr>> >>)
               ELSE d.store,
     wrote |-> {"store"}, validated |-> {}, verdict |-> "none"]

\* an exception that ends the command after the quests file was emptied
Fail_TruncatesQuests(d, e) ==
    [err |-> e, quests |-> Put(d.quests, "quests", EmptyArr), items |-> d.items,
     store |-> d.store, wrote |-> {"quests"}, validated |-> {}, verdict |-> "none"]

Fail(d, e) ==
    [err |-> e, quests |-> d.quests, items |-> d.items, store |-> d.store,
     wrote |-> {}, validated |-> {}, verdict |-> "none"]

\* ContentPacks._rebuild_id_caches, for one pack
rebuild_id_caches(pack, key) == PackIds(pack, key)

load_all_packs(d) ==
    [err |-> IF IsDict(d.quests) /\ IsDict(d.items) /\ IsDict(d.recipes)
             THEN "none" ELSE "CliError",
     quests_pack |-> d.quests, items_pack |-> d.items, recipes_pack |-> d.recipes,
     item_ids |-> rebuild_id_caches(d.items, "items")]

\* get_quests / get_items: the pack's own list, or a fresh empty one
get_entries(pack, key) ==
    LET entries == GetOr(pack, key, EmptyArr) IN IF IsList(entries) THEN entries.v ELSE <<>>

\* the pack after its list was mutated in place; a fresh list is not the pack's
with_entries(pack, key, entries) ==
    IF key \in DOMAIN pack.v /\ IsList(pack.v[key]) THEN Put(pack, key, JSeq(entries))
    ELSE pack

\* the one-based position of the first object whose field equals id, 0 if none
RECURSIVE find_entry(_, _, _, _)
find_entry(entries, from, field, id) ==
    IF from > Len(entries) THEN 0
    ELSE IF IsDict(entries[from]) /\ Get(entries[from], field) = JStr(id) THEN from
    ELSE find_entry(entries, from + 1, field, id)

ReplaceAt(entries, at, entry) == [entries EXCEPT ![at] = entry]
RemoveAt(entries, at) == SubSeq(entries, 1, at - 1) \o SubSeq(entries, at + 1, Len(entries))

SchemaPacks == {"quests", "items", "recipes"}


\* _save_if_valid without the "if issues: raise"
save_if_valid_Unchecked(d, quests_pack, items_pack, write_quests, write_items) ==
    LET issues == validate_packs(quests_pack, items_pack, d.recipes) IN
    [err |-> "none",
     quests |-> IF write_quests THEN quests_pack ELSE d.quests,
     items |-> IF write_items THEN items_pack ELSE d.items,
     store |-> d.store,
     wrote |-> (IF write_quests THEN {"quests"} ELSE {})
                   \cup (IF write_items THEN {"items"} ELSE {}),
     validated |-> SchemaPacks,
     verdict |-> IF issues.raised THEN "raised"
                 ELSE IF issues.issues # <<>> THEN "issues" ELSE "clean"]

\* _save_if_valid that saves the quests pack and the items pack whatever the flags
save_if_valid_BothPacks(d, quests_pack, items_pack, write_quests, write_items) ==
    LET issues == validate_packs(quests_pack, items_pack, d.recipes) IN
    IF issues.raised
    THEN [Fail(d, "TypeError") EXCEPT !.validated = SchemaPacks, !.verdict = "raised"]
    ELSE IF issues.issues # <<>>
    THEN [Fail(d, "ValidationError") EXCEPT !.validated = SchemaPacks, !.verdict = "issues"]
    ELSE [err |-> "none", quests |-> quests_pack, items |-> items_pack, store |-> d.store,
          wrote |-> {"quests", "items"}, validated |-> SchemaPacks, verdict |-> "clean"]

\* _save_if_valid(packs, write_quests=..., write_items=...)
save_if_valid(d, quests_pack, items_pack, write_quests, write_items) ==
    LET issues == validate_packs(quests_pack, items_pack, d.recipes) IN
    IF issues.raised
    THEN [Fail(d, "TypeError") EXCEPT !.validated = SchemaPacks, !.verdict = "raised"]
    ELSE IF issues.issues # <<>>
    THEN [Fail(d, "ValidationError") EXCEPT !.validated = SchemaPacks, !.verdict = "issues"]
    ELSE [err |-> "none",
          quests |-> IF write_quests THEN quests_pack ELSE d.quests,
          items |-> IF write_items THEN items_pack ELSE d.items,
          store |-> d.store,
          wrote |-> (IF write_quests THEN {"quests"} ELSE {})
                        \cup (IF write_items THEN {"items"} ELSE {}),
          validated |-> SchemaPacks, verdict |-> "clean"]

\* raw.split(sep)
RECURSIVE Split(_, _)
Split(raw, sep) ==
    LET at == Find(raw, sep, 1) IN
    IF at = 0 THEN <<raw>>
    ELSE <<SubSeq(raw, 1, at - 1)>> \o Split(SubSeq(raw, at + 1, Len(raw)), sep)

\* [part.strip() for part in requires.split(",") if part.strip()]
RequiresParts(requires) ==
    LET kept == SelectSeq(Split(requires, ","), LAMBDA part : Strip(part) # <<>>)
    IN [i \in DOMAIN kept |-> JStr(Join(Strip(kept[i])))]

\* the first item with a well-formed id, 0 if none
RECURSIVE FirstValidItem(_, _)
FirstValidItem(items, from) ==
    IF from > Len(items) THEN 0
    ELSE IF IsDict(items[from]) /\ is_valid_content_id(GetOr(items[from], "id", JStr("")))
    THEN from
    ELSE FirstValidItem(items, from + 1)

default_gather_step(default_item_id) ==
    Obj(<< <<"kind", JStr("gather_item")>>, <<"action", JStr("mine")>>,
           <<"itemId", default_item_id>>, <<"qty", JInt(1)>>,
           <<"locationTierMin", JInt(1)>> >>)

\* an absent optional argument (None) is JNull, an absent string option ""
cmd_quests_create(d, args) ==
    LET packs == load_all_packs(d)
        quests == get_entries(packs.quests_pack, "quests")
        items == get_entries(packs.items_pack, "items")
        first == FirstValidItem(items, 1)
        default_item_id == IF first = 0 THEN JStr("pyrite_ore") ELSE Get(items[first], "id")
        repeat ==
            Obj(<< <<"kind", JStr(args.repeat_kind)>> >>
                \o IF args.repeat_kind = "cooldown"
                   THEN << <<"hours", JInt(args.repeat_hours)>> >> ELSE <<>>)
        prerequisites ==
            Obj((IF args.profession # JNull THEN << <<"profession", args.profession>> >>
                 ELSE <<>>)
                \o (IF args.min_level # JNull THEN << <<"minLevel", args.min_level>> >>
                    ELSE <<>>)
                \o (IF args.requires # <<>>
                    THEN << <<"requiresQuestsCompleted", JSeq(RequiresParts(args.requires))>> >>
                    ELSE <<>>))
        quest ==
            Obj(<< <<"id", JStr(args.id)>>, <<"title", JStr(args.title)>>,
                   <<"icon", JStr(args.icon)>>, <<"description", JStr(args.description)>>,
                   <<"repeat", repeat>>, <<"difficulty", JStr(args.difficulty)>>,
                   <<"enabled", JBool(~args.disabled)>>,
                   <<"steps", JSeq(<<default_gather_step(default_item_id)>>)>>,
                   <<"rewards", Obj(<< <<"currency",
                                         JSeq(<<Obj(<< <<"id", JStr("coins")>>,
                                                       <<"amount", JInt(args.coins)>> >>)>>)>>,
                                       <<"xp", JInt(args.xp)>> >>)>> >>
                \o IF prerequisites # EmptyObj
                   THEN << <<"prerequisites", prerequisites>> >> ELSE <<>>)
    IN  IF packs.err # "none" THEN Fail(d, packs.err)
        ELSE IF find_entry(quests, 1, "id", args.id) # 0 THEN Fail(d, "DuplicateIdError")
        ELSE save_if_valid(d, with_entries(packs.quests_pack, "quests", Append(quests, quest)),
                           packs.items_pack, TRUE, FALSE)

cmd_quests_delete(d, quest_id) ==
    LET packs == load_all_packs(d)
        quests == get_entries(packs.quests_pack, "quests")
        index == find_entry(quests, 1, "id", quest_id)
    IN  IF packs.err # "none" THEN Fail(d, packs.err)
        ELSE IF index = 0 THEN Fail(d, "NotFoundError")
        ELSE save_if_valid(d, with_entries(packs.quests_pack, "quests", RemoveAt(quests, index)),
                           packs.items_pack, TRUE, FALSE)

cmd_quests_set(d, quest_id, path, raw) ==
    LET packs == load_all_packs(d)
        quests == get_entries(packs.quests_pack, "quests")
        index == find_entry(quests, 1, "id", quest_id)
        parsed == parse_cli_value(raw)
        changed == set_by_path(quests[index], path, parsed.value)
    IN  IF packs.err # "none" THEN Fail(d, packs.err)
        ELSE IF index = 0 THEN Fail(d, "NotFoundError")
        ELSE IF parsed.err # "none" THEN Fail(d, parsed.err)
        ELSE IF changed.err # "none" THEN Fail(d, changed.err)
        ELSE save_if_valid(d, with_entries(packs.quests_pack, "quests",
                                           ReplaceAt(quests, index, changed.doc)),
                           packs.items_pack, TRUE, FALSE)

cmd_quests_unset(d, quest_id, path) ==
    LET packs == load_all_packs(d)
        quests == get_entries(packs.quests_pack, "quests")
        index == find_entry(quests, 1, "id", quest_id)
        changed == delete_by_path(quests[index], path)
    IN  IF packs.err # "none" THEN Fail(d, packs.err)
        ELSE IF index = 0 THEN Fail(d, "NotFoundError")
        ELSE IF changed.err # "none" THEN Fail(d, changed.err)
        ELSE save_if_valid(d, with_entries(packs.quests_pack, "quests",
                                           ReplaceAt(quests, index, changed.doc)),
                           packs.items_pack, TRUE, FALSE)

cmd_quests_step_add(d, quest_id, kind, qty, param) ==
    LET packs == load_all_packs(d)
        quests == get_entries(packs.quests_pack, "quests")
        index == find_entry(quests, 1, "id", quest_id)
        steps == GetOr(quests[index], "steps", EmptyArr)
        params == parse_param_pairs(param, 1, <<>>)
        new_step == Obj(<< <<"kind", JStr(kind)>>, <<"qty", JInt(qty)>> >> \o params.params)
    IN  IF packs.err # "none" THEN Fail(d, packs.err)
        ELSE IF index = 0 THEN Fail(d, "NotFoundError")
        ELSE IF ~IsList(steps) THEN Fail(d, "CliError")
        ELSE IF params.err # "none" THEN Fail(d, params.err)
        ELSE save_if_valid(d, with_entries(packs.quests_pack, "quests",
                                  ReplaceAt(quests, index,
                                            Put(quests[index], "steps",
                                                SeqAppend(steps, new_step)))),
                           packs.items_pack, TRUE, FALSE)

cmd_quests_step_remove(d, quest_id, index) ==
    LET packs == load_all_packs(d)
        quests == get_entries(packs.quests_pack, "quests")
        at == find_entry(quests, 1, "id", quest_id)
        steps == Get(quests[at], "steps")
    IN  IF packs.err # "none" THEN Fail(d, packs.err)
        ELSE IF at = 0 THEN Fail(d, "NotFoundError")
        ELSE IF ~IsList(steps) THEN Fail(d, "CliError")
        ELSE IF index < 0 \/ index >= Len(steps.v) THEN Fail(d, "CliError")
        ELSE save_if_valid(d, with_entries(packs.quests_pack, "quests",
                                  ReplaceAt(quests, at,
                                            Put(quests[at], "steps", SeqPop(steps, index)))),
                           packs.items_pack, TRUE, FALSE)

Max(a, b) == IF a >= b THEN a ELSE b

cmd_items_create(d, args) ==
    LET packs == load_all_packs(d)
        items == get_entries(packs.items_pack, "items")
        item ==
            Obj(<< <<"id", JStr(args.id)>>, <<"name", JStr(args.name)>>,
                   <<"description", JStr(args.description)>>, <<"emoji", JStr(args.emoji)>>,
                   <<"maxStack", JInt(args.max_stack)>>, <<"weight", args.weight>>,
                   <<"canStack", JBool(args.can_stack)>>, <<"value", JInt(args.value)>>,
                   <<"market",
                     Obj(<< <<"tradable", JBool(args.tradable)>>,
                            <<"category", JStr(args.category)>>,
                            <<"suggestedPrice",
                              IF args.suggested_price # JNull THEN args.suggested_price
                              ELSE JInt(Max(1, args.value))>>,
                            <<"minPrice", JInt(args.min_price)>>,
                            <<"maxPrice", JInt(args.max_price)>> >>)>> >>)
    IN  IF packs.err # "none" THEN Fail(d, packs.err)
        ELSE IF find_entry(items, 1, "id", args.id) # 0 THEN Fail(d, "DuplicateIdError")
        ELSE save_if_valid(d, packs.quests_pack,
                           with_entries(packs.items_pack, "items", Append(items, item)),
                           FALSE, TRUE)

cmd_items_delete(d, item_id) ==
    LET packs == load_all_packs(d)
        items == get_entries(packs.items_pack, "items")
        index == find_entry(items, 1, "id", item_id)
    IN  IF packs.err # "none" THEN Fail(d, packs.err)
        ELSE IF index = 0 THEN Fail(d, "NotFoundError")
        ELSE save_if_valid(d, packs.quests_pack,
                           with_entries(packs.items_pack, "items", RemoveAt(items, index)),
                           FALSE, TRUE)

cmd_items_set(d, item_id, path, raw) ==
    LET packs == load_all_packs(d)
        items == get_entries(packs.items_pack, "items")
        index == find_entry(items, 1, "id", item_id)
        parsed == parse_cli_value(raw)
        changed == set_by_path(items[index], path, parsed.value)
    IN  IF packs.err # "none" THEN Fail(d, packs.err)
        ELSE IF index = 0 THEN Fail(d, "NotFoundError")
        ELSE IF parsed.err # "none" THEN Fail(d, parsed.err)
        ELSE IF changed.err # "none" THEN Fail(d, changed.err)
        ELSE save_if_valid(d, packs.quests_pack,
                           with_entries(packs.items_pack, "items",
                                        ReplaceAt(items, index, changed.doc)),
                           FALSE, TRUE)

cmd_items_unset(d, item_id, path) ==
    LET packs == load_all_packs(d)
        items == get_entries(packs.items_pack, "items")
        index == find_entry(items, 1, "id", item_id)
        changed == delete_by_path(items[index], path)
    IN  IF packs.err # "none" THEN Fail(d, packs.err)
        ELSE IF index = 0 THEN Fail(d, "NotFoundError")
        ELSE IF changed.err # "none" THEN Fail(d, changed.err)
        ELSE save_if_valid(d, packs.quests_pack,
                           with_entries(packs.items_pack, "items",
                                        ReplaceAt(items, index, changed.doc)),
                           FALSE, TRUE)

\* _load_store_pack
load_store_pack(d) ==
    IF d.store # NoFile THEN d.store
    ELSE Obj(<< <<"schemaVersion", JInt(1)>>, <<"items", EmptyArr>> >>)

\* store_pack.setdefault("items", []): the document as cmd_store_add holds it
\* when it looks the item id up
store_setdefault(store_pack) ==
    IF "items" \in DOMAIN store_pack.v THEN store_pack ELSE Put(store_pack, "items", EmptyArr)

\* the run of a store command that validated the store pack and saved it
StoreSaved(d, store_pack, issues) ==
    IF issues.raised
    THEN [Fail(d, "TypeError") EXCEPT !.validated = {"store"}, !.verdict = "raised"]
    ELSE IF issues.issues # <<>>
    THEN [Fail(d, "ValidationError") EXCEPT !.validated = {"store"}, !.verdict = "issues"]
    ELSE [err |-> "none", quests |-> d.quests, items |-> d.items, store |-> store_pack,
          wrote |-> {"store"}, validated |-> {"store"}, verdict |-> "clean"]

\* int(default_value * 0.85)
SellDefault(default_value) ==
    IF PyIsInt(default_value) THEN (PyInt(default_value) * 85) \div 100
    ELSE (default_value.v * 85) \div 1000

cmd_store_add(d, args) ==
    LET packs == load_all_packs(d)
        store_pack == load_store_pack(d)
        items == GetOr(store_pack, "items", EmptyArr)
        at == find_entry(get_entries(packs.items_pack, "items"), 1, "id", args.item_id)
        item_def == get_entries(packs.items_pack, "items")[at]
        default_name == GetOr(item_def, "name", JStr(args.item_id))
        default_value == GetOr(item_def, "value", JInt(10))
        store_item ==
            Obj(<< <<"itemId", JStr(args.item_id)>>,
                   <<"name", IF args.name # "" THEN JStr(args.name) ELSE default_name>>,
                   <<"buyPrice",
                     IF args.buy_price # JNull THEN args.buy_price ELSE default_value>>,
                   <<"sellPrice",
                     IF args.sell_price # JNull THEN args.sell_price
                     ELSE JInt(SellDefault(default_value))>>,
                   <<"stock", JInt(args.stock)>>,
                   <<"available", JBool(~args.unavailable)>> >>
                \o (IF args.description # ""
                    THEN << <<"description", JStr(args.description)>> >> ELSE <<>>)
                \o (IF args.category # ""
                    THEN << <<"category", JStr(args.category)>> >> ELSE <<>>)
                \o (IF args.purchase_limit > 0
                    THEN << <<"purchaseLimit", JInt(args.purchase_limit)>> >> ELSE <<>>)
                \o (IF args.required_role # ""
                    THEN << <<"requiredRole", JStr(args.required_role)>> >> ELSE <<>>))
        added == Put(store_pack, "items", SeqAppend(items, store_item))
    IN  IF packs.err # "none" THEN Fail(d, packs.err)
        ELSE IF ~IsDict(store_pack) THEN Fail(d, "AttributeError")
        ELSE IF args.item_id \notin packs.item_ids THEN Fail(d, "NotFoundError")
        ELSE IF ~IsList(items) THEN Fail(d, "AttributeError")
        ELSE IF find_entry(items.v, 1, "itemId", args.item_id) # 0
        THEN Fail(d, "DuplicateIdError")
        ELSE IF args.sell_price = JNull /\ ~PyIsNumber(default_value) THEN Fail(d, "TypeError")
        ELSE StoreSaved(d, added, validate_store_pack(added, packs.item_ids))


cmd_store_remove(d, item_id) ==
    LET store_pack == load_store_pack(d)
        items == get_entries(store_pack, "items")
        index == find_entry(items, 1, "itemId", item_id)
    IN  IF ~IsDict(store_pack) THEN Fail(d, "AttributeError")
        ELSE IF index = 0 THEN Fail(d, "NotFoundError")
        ELSE [err |-> "none", quests |-> d.quests, items |-> d.items,
              store |-> with_entries(store_pack, "items", RemoveAt(items, index)),
              wrote |-> {"store"}, validated |-> {}, verdict |-> "none"]

cmd_store_set(d, item_id, path, raw) ==
    LET packs == load_all_packs(d)
        store_pack == load_store_pack(d)
        items == get_entries(store_pack, "items")
        index == find_entry(items, 1, "itemId", item_id)
        parsed == parse_cli_value(raw)
        changed == set_by_path(items[index], path, parsed.value)
        updated == with_entries(store_pack, "items", ReplaceAt(items, index, changed.doc))
    IN  IF packs.err # "none" THEN Fail(d, packs.err)
        ELSE IF ~IsDict(store_pack) THEN Fail(d, "AttributeError")
        ELSE IF index = 0 THEN Fail(d, "NotFoundError")
        ELSE IF parsed.err # "none" THEN Fail(d, parsed.err)
        ELSE IF changed.err # "none" THEN Fail(d, changed.err)
        ELSE StoreSaved(d, updated, validate_store_pack(updated, packs.item_ids))

\* a command that printed what it loaded and returned
Printed(d) == Fail(d, "none")

\* cmd_quests_list, cmd_items_list
cmd_list(d) == Fail(d, load_all_packs(d).err)

\* cmd_quests_show, cmd_items_show: key is "quests" or "items"
cmd_show(d, key, id) ==
    LET packs == load_all_packs(d)
        pack == IF key = "quests" THEN packs.quests_pack ELSE packs.items_pack
    IN  IF packs.err # "none" THEN Fail(d, packs.err)
        ELSE IF find_entry(get_entries(pack, key), 1, "id", id) = 0 THEN Fail(d, "NotFoundError")
        ELSE Printed(d)

cmd_store_list(d) ==
    IF ~IsDict(load_store_pack(d)) THEN Fail(d, "AttributeError") ELSE Printed(d)

cmd_store_show(d, item_id) ==
    LET store_pack == load_store_pack(d)
        items == GetOr(store_pack, "items", EmptyArr)
    IN  IF ~IsDict(store_pack) THEN Fail(d, "AttributeError")
        ELSE IF ~IsList(items) \/ find_entry(items.v, 1, "itemId", item_id) = 0
        THEN Fail(d, "NotFoundError")
        ELSE Printed(d)

\* cmd_validate: prints the issues and returns 1, or prints the counts
cmd_validate(d) ==
    LET packs == load_all_packs(d)
        issues == validate_packs(packs.quests_pack, packs.items_pack, packs.recipes_pack)
    IN  IF packs.err # "none" THEN Fail(d, packs.err)
        ELSE IF issues.raised
        THEN [Fail(d, "TypeError") EXCEPT !.validated = SchemaPacks, !.verdict = "raised"]
        ELSE [Printed(d) EXCEPT !.validated = SchemaPacks,
                                !.verdict = IF issues.issues # <<>> THEN "issues" ELSE "clean"]

-----------------------------------------------------------------------------
(* Values that stand for "this machine is not running" in the              *)
(* specifications of the other machines.                                   *)

Idle == [op |-> "idle"]

-----------------------------------------------------------------------------
(* SpecPath: set_by_path and delete_by_path applied, call after call, to   *)
(* one in-memory document.                                                 *)

MaxPathOps == 2

PathDoc0 ==
    Obj(<< <<"id", JStr("qa")>>,
           <<"note", JNull>>,
           <<"steps", JSeq(<< Obj(<< <<"kind", JStr("gather_item")>>,
                                     <<"itemId", JStr("ia")>>,
                                     <<"qty", JInt(1)>> >>) >>)>> >>)

PathInputs ==
    { <<"id">>,
      <<"market">>,
      <<"market", ".", "minPrice">>,
      <<"note", "[", "0", "]">>,
      <<"steps", "[", "0", "]">>,
      <<"steps", "[", "1", "]">>,
      <<"steps", "[", "0", "]", ".", "itemId">>,
      <<"steps", "[", "2", "]", ".", "qty">>,
      <<"steps", ".", "x">>,
      <<"id", ".", "x">>,
      <<"steps", "[", "-", "1", "]">>,
      <<"steps", "[", "0">>,
      <<"steps", "[", "^2", "]">>,
      <<"[", "]">>,
      <<"k", "[", "0", "]">>,
      <<"id", ".", "x", ".", "y">>,
      <<"id", "[", "0", "]", ".", "x">>,
      <<" ">>,
      <<".">> }

PathValues == { JInt(5), JNull, EmptyArr }

\* what the call before the last one was
NoCall == [op |-> "none", path |-> <<>>, err |-> "none"]
Summary(call) == [op |-> call.op, path |-> call.path, err |-> call.err]

PathInit ==
    /\ pdoc = PathDoc0
    /\ plast = [op |-> "none", path |-> <<>>, value |-> JNull, err |-> "none",
                before |-> JNull, prev |-> NoCall, n |-> 0]
    /\ disk = Idle /\ last = Idle /\ vpacks = Idle /\ vout = Idle
    /\ quests_in = Idle /\ dfs = Idle

SetByPath(path, value) ==
    /\ plast.n < MaxPathOps
    /\ LET r == set_by_path(pdoc, path, value) IN
        /\ pdoc' = r.doc
        /\ plast' = [op |-> "set", path |-> path, value |-> value, err |-> r.err,
                     before |-> pdoc, prev |-> Summary(plast), n |-> plast.n + 1]
    /\ UNCHANGED <<disk, last, vpacks, vout, quests_in, dfs>>

DeleteByPath(path) ==
    /\ plast.n < MaxPathOps
    /\ LET r == delete_by_path(pdoc, path) IN
        /\ pdoc' = r.doc
        /\ plast' = [op |-> "delete", path |-> path, value |-> JNull, err |-> r.err,
                     before |-> pdoc, prev |-> Summary(plast), n |-> plast.n + 1]
    /\ UNCHANGED <<disk, last, vpacks, vout, quests_in, dfs>>

PathNext ==
    \/ \E path \in PathInputs, value \in PathValues : SetByPath(path, value)
    \/ \E path \in PathInputs : DeleteByPath(path)

SpecPath == PathInit /\ [][PathNext]_vars

-----------------------------------------------------------------------------
(* Reading a document along a token sequence, without changing it: what    *)
(* the claims about the path engine compare the engine's results with.     *)

RECURSIVE ReadAlong(_, _)
ReadAlong(doc, tokens) ==
    IF tokens = <<>> THEN [ok |-> TRUE, val |-> doc]
    ELSE IF tokens[1].isKey THEN
        IF IsDict(doc) /\ tokens[1].key \in DOMAIN doc.v
        THEN ReadAlong(doc.v[tokens[1].key], Tail(tokens))
        ELSE [ok |-> FALSE, val |-> JNull]
    ELSE
        IF IsList(doc) /\ tokens[1].idx >= 0 /\ tokens[1].idx < Len(doc.v)
        THEN ReadAlong(doc.v[tokens[1].idx + 1], Tail(tokens))
        ELSE [ok |-> FALSE, val |-> JNull]

Prefix(tokens, k) == SubSeq(tokens, 1, k)

\* the container tokens[k] is applied to, in doc
ContainerOf(doc, tokens, k) == ReadAlong(doc, Prefix(tokens, k - 1))

\* every non-final segment resolves to a container of the kind the path needs there
NonFinalResolve(doc, tokens) ==
    \A k \in 1..Len(tokens) :
        LET c == ContainerOf(doc, tokens, k) IN
        /\ c.ok
        /\ IF tokens[k].isKey THEN IsDict(c.val) ELSE IsList(c.val)

\* segment k is an index applied to an existing sequence that is too short for it
OutOfBoundsAt(doc, tokens, k) ==
    LET c == ContainerOf(doc, tokens, k) IN
    /\ ~tokens[k].isKey
    /\ c.ok /\ IsList(c.val)
    /\ (tokens[k].idx >= Len(c.val.v) \/ tokens[k].idx < 0)

LastTokens == parse_path_tokens(plast.path).tokens
LastParsed == plast.op # "none" /\ parse_path_tokens(plast.path).err = "none"

\* C6: path round-trip.  When every non-final segment of the path resolved to
\* a container of the matching kind, a set_by_path that returns leaves the
\* value v readable along the same token sequence.
C6_RoundTrip ==
    (/\ plast.op = "set" /\ LastParsed
     /\ NonFinalResolve(plast.before, LastTokens)
     /\ plast.err = "none")
    => ReadAlong(pdoc, LastTokens) = [ok |-> TRUE, val |-> plast.value]

C6_Witness ==
    /\ plast.op = "set" /\ LastParsed /\ plast.err = "none"
    /\ Len(LastTokens) = 3
    /\ NonFinalResolve(plast.before, LastTokens)
    /\ ReadAlong(plast.before, LastTokens).val # plast.value

LastLeafIsKey == LastParsed /\ LastTokens[Len(LastTokens)].isKey

\* C8: deleting a map key that is absent fails with PathAccessError; so a
\* second delete of a path right after a successful delete of that path
\* fails, and leaves the document as it is.
C8_DeleteAbsentFails ==
    /\ (/\ plast.op = "delete" /\ LastLeafIsKey
        /\ ContainerOf(plast.before, LastTokens, Len(LastTokens)).ok
        /\ IsDict(ContainerOf(plast.before, LastTokens, Len(LastTokens)).val)
        /\ LastTokens[Len(LastTokens)].key
             \notin DOMAIN ContainerOf(plast.before, LastTokens, Len(LastTokens)).val.v)
       => plast.err = "PathAccessError"
    /\ (/\ plast.op = "delete" /\ LastLeafIsKey
        /\ plast.prev = [op |-> "delete", path |-> plast.path, err |-> "none"])
       => (plast.err = "PathAccessError" /\ pdoc = plast.before)

C8_Witness ==
    /\ plast.op = "delete" /\ LastLeafIsKey
    /\ plast.prev = [op |-> "delete", path |-> plast.path, err |-> "none"]
    /\ plast.err = "PathAccessError"

\* the positions of the path at which a "[" stands
OpensAt(path) == { i \in DOMAIN path : path[i] = "[" }

\* the text between the "[" at position i and the first "]" after it
BracketContent(path, i) == SubSeq(path, i + 1, Find(path, "]", i) - 1)

Unclosed(path) == \E i \in OpensAt(path) : Find(path, "]", i) = 0
NotAllDigits(path) ==
    \E i \in OpensAt(path) : Find(path, "]", i) # 0 /\ ~IsDigit(BracketContent(path, i))
OnlyDots(path) == \A i \in DOMAIN path : path[i] = "."

IndexTokens(tokens) == { k \in DOMAIN tokens : ~tokens[k].isKey }

\* C21: parse_path_tokens either returns a token list or fails with
\* InvalidPathError.  It fails for a blank path, for a "[" without "]", for
\* bracket content that is not all digits and for a path of dots only; when
\* it returns, the list is not empty, holds one integer token per bracket
\* pair and no empty key, and "steps[0].itemId" gives ("steps", 0, "itemId").
C21_ParsePathTokens ==
    plast.op # "none" =>
        LET path == plast.path
            r == parse_path_tokens(path)
        IN  /\ r.err \in {"none", "InvalidPathError"}
            /\ (IsBlank(path) \/ Unclosed(path) \/ NotAllDigits(path) \/ OnlyDots(path))
                 => r.err = "InvalidPathError"
            /\ r.err = "none" =>
                 /\ r.tokens # <<>>
                 /\ Cardinality(IndexTokens(r.tokens)) = Cardinality(OpensAt(path))
                 /\ \A k \in DOMAIN r.tokens : r.tokens[k].isKey => r.tokens[k].key # ""
            /\ path = <<"steps", "[", "0", "]", ".", "itemId">>
                 => r = [err |-> "none", tokens |-> <<Key("steps"), Idx(0), Key("itemId")>>]

\* the same statement for paths whose bracket contents int() accepts
C21_DecimalPaths ==
    (\A i \in OpensAt(plast.path) :
        Find(plast.path, "]", i) # 0 =>
            \A j \in DOMAIN BracketContent(plast.path, i) :
                BracketContent(plast.path, i)[j] \notin Superscripts)
    => C21_ParsePathTokens

\* the value the document, as it was before the last call, holds under the
\* non-final token k of the path ("absent" when the key is not there)
Absent == [t |-> "absent", v |-> 0]
HeldAt(tokens, k) ==
    LET c == ContainerOf(plast.before, tokens, k) IN
    IF tokens[k].isKey /\ tokens[k].key \notin DOMAIN c.val.v THEN Absent
    ELSE ReadAlong(plast.before, Prefix(tokens, k)).val

\* no token before token k stands on a key that holds null: the values the
\* descent meets up to token k are those of the document before the call
Undisturbed(tokens, k) ==
    \A j \in 1..(k - 1) :
        tokens[j].isKey => ReadAlong(plast.before, Prefix(tokens, j)).val # JNull

\* the descent of the last call arrives at token k with a map for a string
\* token, a sequence for an integer token
DescentArrives(tokens, k) ==
    /\ k < Len(tokens)
    /\ ContainerOf(plast.before, tokens, k).ok
    /\ Undisturbed(tokens, k)
    /\ IF tokens[k].isKey THEN IsDict(ContainerOf(plast.before, tokens, k).val)
       ELSE /\ IsList(ContainerOf(plast.before, tokens, k).val)
            /\ tokens[k].idx < Len(ContainerOf(plast.before, tokens, k).val.v)

\* the descent of the last call arrives at token k with a value of the other kind
DescentMismatch(tokens, k) ==
    /\ k < Len(tokens)
    /\ ContainerOf(plast.before, tokens, k).ok
    /\ Undisturbed(tokens, k)
    /\ IF tokens[k].isKey THEN ~IsDict(ContainerOf(plast.before, tokens, k).val)
       ELSE ~IsList(ContainerOf(plast.before, tokens, k).val)

IsScalar(x) == ~IsDict(x) /\ ~IsList(x)

\* C25: in the descent of set_by_path, a string token whose key is absent or
\* null gets an empty sequence when the next token is an integer (the call
\* then fails on the index) and a map otherwise; a value that is there and
\* not null is kept (its kind always, the value itself when it is no
\* container); a string token on a non-map and an integer token on a
\* non-sequence fail with PathAccessError.
C25_DescentMaterializes ==
    (plast.op = "set" /\ LastParsed) =>
        \A k \in 1..Len(LastTokens) :
            LET now == ReadAlong(pdoc, Prefix(LastTokens, k)) IN
            /\ (DescentArrives(LastTokens, k) /\ LastTokens[k].isKey) =>
                 IF HeldAt(LastTokens, k) \in {Absent, JNull}
                 THEN /\ now.ok
                      /\ IF LastTokens[k + 1].isKey THEN IsDict(now.val)
                         ELSE now.val = EmptyArr /\ plast.err = "PathAccessError"
                 ELSE /\ now.ok
                      /\ now.val.t = HeldAt(LastTokens, k).t
                      /\ IsScalar(HeldAt(LastTokens, k)) =>
                            (now.val = HeldAt(LastTokens, k) /\ plast.err = "PathAccessError")
            /\ DescentMismatch(LastTokens, k) =>
                 (plast.err = "PathAccessError" /\ pdoc = plast.before)

\* a set on k[0], with k absent, has left k: [] behind
C25_Witness ==
    /\ plast.op = "set" /\ LastParsed /\ Len(LastTokens) >= 2
    /\ DescentArrives(LastTokens, 1) /\ LastTokens[1].isKey
    /\ HeldAt(LastTokens, 1) = Absent
    /\ ~LastTokens[2].isKey
    /\ ReadAlong(pdoc, Prefix(LastTokens, 1)).val = EmptyArr

\* the last call met, in its descent, a string token whose key was absent or null
Materialized(tokens, k) ==
    /\ DescentArrives(tokens, k) /\ tokens[k].isKey
    /\ HeldAt(tokens, k) \in {Absent, JNull}

\* C26: delete_by_path materializes containers as set_by_path does.  A
\* delete whose descent meets an absent or null key fails with
\* PathAccessError and leaves a container under that key, so the document
\* differs from the one before the call; so does a set that materializes an
\* empty sequence (k[0] with k absent).
C26_FailedCallChangesDocument ==
    (plast.op # "none" /\ LastParsed) =>
        \A k \in 1..Len(LastTokens) :
            (/\ Materialized(LastTokens, k)
             /\ plast.op = "delete" \/ ~LastTokens[k + 1].isKey)
            => /\ plast.err = "PathAccessError"
               /\ pdoc # plast.before
               /\ ReadAlong(pdoc, Prefix(LastTokens, k)).ok
               /\ IF LastTokens[k + 1].isKey
                  THEN IsDict(ReadAlong(pdoc, Prefix(LastTokens, k)).val)
                  ELSE ReadAlong(pdoc, Prefix(LastTokens, k)).val = EmptyArr

\* a delete of market.minPrice, with market absent, has failed and left market: {}
C26_Witness ==
    /\ plast.op = "delete" /\ LastParsed /\ Len(LastTokens) = 2
    /\ Materialized(LastTokens, 1)
    /\ HeldAt(LastTokens, 1) = Absent
    /\ LastTokens[2].isKey
    /\ plast.err = "PathAccessError"
    /\ pdoc = Put(plast.before, LastTokens[1].key, EmptyObj)

-----------------------------------------------------------------------------
(* Spec: the mutating commands run one after another on the pack files.    *)
(* One action is one run of the program, from load_all_packs to its exit.  *)

MaxSteps == 2

ItemA ==
    Obj(<< <<"id", JStr("ia")>>, <<"name", JStr("Ore")>>, <<"description", JStr("Text")>>,
           <<"value", JInt(10)>>,
           <<"market", Obj(<< <<"tradable", JBool(TRUE)>>,
                              <<"category", JStr("materials")>> >>)>> >>)
RecipeA == Obj(<< <<"id", JStr("ra")>> >>)
QuestA ==
    Obj(<< <<"id", JStr("qa")>>, <<"title", JStr("A quest")>>,
           <<"description", JStr("Text")>>,
           <<"steps", JSeq(<<default_gather_step(JStr("ia"))>>)>>,
           <<"rewards", Obj(<< <<"xp", JInt(50)>> >>)>> >>)

Pack(key, entries) == Obj(<< <<"schemaVersion", JInt(1)>>, <<key, JSeq(entries)>> >>)

Disk0 ==
    [quests |-> Pack("quests", <<QuestA>>),
     items |-> Pack("items", <<ItemA>>),
     recipes |-> Pack("recipes", <<RecipeA>>),
     store |-> NoFile]

\* the parser's defaults (cli.py) with the required arguments filled in
QuestsCreateDefaults ==
    [id |-> "qb", title |-> "A quest", description |-> "Text", icon |-> "scroll",
     difficulty |-> "easy", repeat_kind |-> "none", repeat_hours |-> 24,
     profession |-> JNull, min_level |-> JNull, requires |-> <<>>,
     coins |-> 100, xp |-> 50, disabled |-> FALSE]
ItemsCreateDefaults ==
    [id |-> "ib", name |-> "Ore", description |-> "Text", emoji |-> ":package:",
     max_stack |-> 99, weight |-> JInt(1), can_stack |-> TRUE, value |-> 1,
     tradable |-> TRUE, category |-> "materials", suggested_price |-> JNull,
     min_price |-> 1, max_price |-> 5000]
StoreAddDefaults ==
    [item_id |-> "ib", name |-> "", buy_price |-> JNull, sell_price |-> JNull,
     stock |-> -1, unavailable |-> FALSE, description |-> "", category |-> "",
     purchase_limit |-> 0, required_role |-> ""]

QuestsCreateArgs ==
    { [QuestsCreateDefaults EXCEPT !.id = "qa"],
      [QuestsCreateDefaults EXCEPT !.id = "qb", !.requires = <<"qa">>],
      [QuestsCreateDefaults EXCEPT !.id = "qb", !.requires = <<"qc">>] }
QuestsDeleteArgs == {"qb", "qc"}
RequiresPath == <<"prerequisites", ".", "requiresQuestsCompleted">>
QuestsSetArgs ==
    { <<"qa", RequiresPath, <<"[", "\"qb\"", "]">> >>,
      <<"qa", <<"difficulty">>, <<"{", "}">> >>,
      <<"qa", <<"steps", "[", "0", "]", ".", "itemId">>, <<"ghost_item">> >>,
      <<"qa", <<"rewards", ".", "xp">>, <<"{", "bad">> >>,
      <<"qa", <<"steps", "[", "5", "]", ".", "qty">>, <<"2">> >>,
      <<"qa", <<"steps", "[", "x", "]">>, <<"2">> >>,
      <<"qc", <<"difficulty">>, <<"hard">> >> }
QuestsUnsetArgs ==
    { <<"qa", <<"prerequisites">> >>, <<"qb", <<"steps">> >>, <<"qc", <<"steps">> >>,
      <<"qa", <<" ">> >> }
StepAddArgs ==
    { <<"qa", "fight_win", 1, <<>> >>,
      <<"qa", "gather_item", 1, <<>> >>,
      <<"qa", "fight_win", 1, << <<"note">> >> >>,
      <<"qc", "fight_win", 1, <<>> >> }
StepRemoveArgs == { <<"qa", 1>>, <<"qb", 0>> }
ItemsCreateArgs ==
    { [ItemsCreateDefaults EXCEPT !.id = "ia"],
      [ItemsCreateDefaults EXCEPT !.id = "ib", !.value = 20],
      [ItemsCreateDefaults EXCEPT !.id = "Bad Id"] }
ItemsDeleteArgs == {"ia", "ib", "ghost_item"}
ItemsSetArgs ==
    { <<"ia", <<"emoji">>, <<"gem">> >>,
      <<"ib", <<"id">>, <<"ic">> >>,
      <<"ib", <<"id">>, <<"Bad", " ", "Id">> >>,
      <<"ib", <<"market", ".", "category">>, <<"[", "]">> >>,
      <<"ia", <<"value">>, <<"[", "\"qa\"">> >>,
      <<"ia", <<"market", "[", "0", "]">>, <<"1">> >>,
      <<"ia", <<".">>, <<"1">> >> }
ItemsUnsetArgs == { <<"ia", <<"emoji">> >>, <<"ia", <<"name">> >>, <<"ia", <<"[", "]">> >> }
StoreAddArgs ==
    { [StoreAddDefaults EXCEPT !.item_id = "ib"],
      [StoreAddDefaults EXCEPT !.item_id = "ghost_item"],
      [StoreAddDefaults EXCEPT !.item_id = "ia", !.buy_price = JInt(0)] }
StoreRemoveArgs == {"ib", "ia"}
StoreSetArgs ==
    { <<"ib", <<"buyPrice">>, <<"5">> >>,
      <<"ib", <<"itemId">>, <<"ghost_item">> >>,
      <<"ib", <<"category">>, <<"{", "}">> >>,
      <<"ib", <<"stock">>, <<"\"qa\"", "x">> >>,
      <<"ib", <<"name", ".", "x">>, <<"1">> >>,
      <<"ia", <<"stock">>, <<"1">> >> }

ShowArgs == {"qb", "ib"}

NoRun == [cmd |-> "none", err |-> "none", wrote |-> {}, validated |-> {}, verdict |-> "none"]

Init ==
    /\ disk = Disk0
    /\ last = NoRun
    /\ pdoc = Idle /\ plast = Idle /\ vpacks = Idle /\ vout = Idle
    /\ quests_in = Idle /\ dfs = Idle

\* the program ran cmd and exited
Ran(cmd, run) ==
    /\ disk' = [quests |-> run.quests, items |-> run.items, recipes |-> disk.recipes,
                store |-> run.store]
    /\ last' = [cmd |-> cmd, err |-> run.err, wrote |-> run.wrote,
                validated |-> run.validated, verdict |-> run.verdict]
    /\ UNCHANGED <<pdoc, plast, vpacks, vout, quests_in, dfs>>

\* the longest steps list of a quest on disk
StepCount(entries) ==
    LET sizes == {Len(GetOr(entries[i], "steps", EmptyArr).v) : i \in DOMAIN entries}
    IN IF sizes = {} THEN 0 ELSE CHOOSE n \in sizes : \A m \in sizes : m <= n

QuestsCreate(args) == Ran("quests create", cmd_quests_create(disk, args))
QuestsDelete(quest_id) == Ran("quests delete", cmd_quests_delete(disk, quest_id))
QuestsSet(quest_id, path, raw) == Ran("quests set", cmd_quests_set(disk, quest_id, path, raw))
QuestsUnset(quest_id, path) == Ran("quests unset", cmd_quests_unset(disk, quest_id, path))
QuestsStepAdd(quest_id, kind, qty, param) ==
    /\ StepCount(get_entries(disk.quests, "quests")) < MaxSteps
    /\ Ran("quests step-add", cmd_quests_step_add(disk, quest_id, kind, qty, param))
QuestsStepRemove(quest_id, index) ==
    Ran("quests step-remove", cmd_quests_step_remove(disk, quest_id, index))
ItemsCreate(args) == Ran("items create", cmd_items_create(disk, args))
ItemsDelete(item_id) == Ran("items delete", cmd_items_delete(disk, item_id))
ItemsSet(item_id, path, raw) == Ran("items set", cmd_items_set(disk, item_id, path, raw))
ItemsUnset(item_id, path) == Ran("items unset", cmd_items_unset(disk, item_id, path))
StoreAdd(args) == Ran("store add", cmd_store_add(disk, args))
StoreRemove(item_id) == Ran("store remove", cmd_store_remove(disk, item_id))
StoreSet(item_id, path, raw) == Ran("store set", cmd_store_set(disk, item_id, path, raw))
QuestsList == Ran("quests list", cmd_list(disk))
QuestsShow(quest_id) == Ran("quests show", cmd_show(disk, "quests", quest_id))
ItemsList == Ran("items list", cmd_list(disk))
ItemsShow(item_id) == Ran("items show", cmd_show(disk, "items", item_id))
StoreList == Ran("store list", cmd_store_list(disk))
StoreShow(item_id) == Ran("store show", cmd_store_show(disk, item_id))
Validate == Ran("validate", cmd_validate(disk))

Next ==
    \/ \E args \in QuestsCreateArgs : QuestsCreate(args)
    \/ \E quest_id \in QuestsDeleteArgs : QuestsDelete(quest_id)
    \/ \E a \in QuestsSetArgs : QuestsSet(a[1], a[2], a[3])
    \/ \E a \in QuestsUnsetArgs : QuestsUnset(a[1], a[2])
    \/ \E a \in StepAddArgs : QuestsStepAdd(a[1], a[2], a[3], a[4])
    \/ \E a \in StepRemoveArgs : QuestsStepRemove(a[1], a[2])
    \/ \E args \in ItemsCreateArgs : ItemsCreate(args)
    \/ \E item_id \in ItemsDeleteArgs : ItemsDelete(item_id)
    \/ \E a \in ItemsSetArgs : ItemsSet(a[1], a[2], a[3])
    \/ \E a \in ItemsUnsetArgs : ItemsUnset(a[1], a[2])
    \/ \E args \in StoreAddArgs : StoreAdd(args)
    \/ \E item_id \in StoreRemoveArgs : StoreRemove(item_id)
    \/ \E a \in StoreSetArgs : StoreSet(a[1], a[2], a[3])
    \/ QuestsList
    \/ \E quest_id \in ShowArgs : QuestsShow(quest_id)
    \/ ItemsList
    \/ \E item_id \in ShowArgs : ItemsShow(item_id)
    \/ StoreList
    \/ \E item_id \in ShowArgs : StoreShow(item_id)
    \/ Validate

Spec == Init /\ [][Next]_vars

-----------------------------------------------------------------------------
(* Properties of the command machine.                                      *)

QuestsOnDisk == get_entries(disk.quests, "quests")
ItemsOnDisk == get_entries(disk.items, "items")
StoreOnDisk == IF disk.store = NoFile THEN <<>> ELSE get_entries(disk.store, "items")

\* C1: the quests, items and recipes files always pass validate_packs with
\* zero issues, and a command whose validation pass reported an issue ended
\* with ValidationError and wrote no file.
C1_DiskStaysValid ==
    /\ validate_packs(disk.quests, disk.items, disk.recipes) = NoIssue
    /\ (last.verdict = "issues" => (last.err = "ValidationError" /\ last.wrote = {}))

C1_Witness ==
    /\ last.cmd = "items delete"
    /\ last.verdict = "issues" /\ last.err = "ValidationError"
    /\ Len(QuestsOnDisk) = 2 /\ Len(ItemsOnDisk) = 2

AllPacks == {"quests", "items", "recipes", "store"}

\* C2: a command writes a file only after a validation pass over all four
\* packs (quests, items, recipes and store) has reported zero issues.
C2_WriteAfterFullValidation ==
    last.wrote # {} => (last.validated = AllPacks /\ last.verdict = "clean")

\* the strings of a quest's prerequisites.requiresQuestsCompleted
RequiresOf(quest) ==
    LET prereqs == GetOr(quest, "prerequisites", EmptyObj)
        requires == IF IsDict(prereqs) THEN GetOr(prereqs, "requiresQuestsCompleted", EmptyArr)
                    ELSE EmptyArr
    IN IF IsList(requires)
       THEN {requires.v[i].v : i \in {j \in DOMAIN requires.v : IsStr(requires.v[j])}}
       ELSE {}

\* the prerequisite graph: a requires b
Edges(quests) ==
    UNION { {<<quests[i].v["id"].v, r>> : r \in RequiresOf(quests[i])} :
            i \in {j \in DOMAIN quests :
                    IsDict(quests[j]) /\ is_valid_content_id(Get(quests[j], "id"))} }

Successors(edges, nodes) == {e[2] : e \in {x \in edges : x[1] \in nodes}}

RECURSIVE ReachableFrom(_, _)
ReachableFrom(edges, nodes) ==
    LET more == nodes \cup Successors(edges, nodes) IN
    IF more = nodes THEN nodes ELSE ReachableFrom(edges, more)

Cyclic(edges) == \E e \in edges : e[1] \in ReachableFrom(edges, {e[2]})

\* C3: the prerequisite graph of the quests file stays acyclic.
C3_GraphStaysAcyclic == ~Cyclic(Edges(QuestsOnDisk))

\* C4: every itemId of the store file is the id of an item of the items file.
C4_StoreItemsResolve ==
    \A i \in DOMAIN StoreOnDisk :
        IsDict(StoreOnDisk[i]) =>
            \E j \in DOMAIN ItemsOnDisk :
                /\ IsDict(ItemsOnDisk[j])
                /\ Get(ItemsOnDisk[j], "id") = Get(StoreOnDisk[i], "itemId")

\* NotFound, DuplicateId, InvalidPathSyntax, PathAccessFailure, InvalidInputValue
AbortKinds ==
    {"NotFoundError", "DuplicateIdError", "InvalidPathError", "PathAccessError",
     "InvalidValueError"}

\* C17: a command that ends with NotFoundError, DuplicateIdError,
\* InvalidPathError, PathAccessError or InvalidValueError writes no file:
\* every pack file is after the command what it was before it.
C17_AbortLeavesFiles ==
    [][(last'.err \in AbortKinds) => (last'.wrote = {} /\ disk' = disk)]_vars

\* a quests set whose path indexes past the end of steps, run after the
\* quests file and the items file had both been rewritten
C17_Witness ==
    /\ last.cmd = "quests set" /\ last.err = "PathAccessError" /\ last.wrote = {}
    /\ Len(QuestsOnDisk) = 2 /\ Len(ItemsOnDisk) = 2

QuestsCommands ==
    {"quests create", "quests delete", "quests set", "quests unset", "quests step-add",
     "quests step-remove"}
ItemsCommands == {"items create", "items delete", "items set", "items unset"}
StoreCommands == {"store add", "store remove", "store set"}
ReadOnlyCommands ==
    {"quests list", "quests show", "items list", "items show", "store list", "store show",
     "validate"}

\* the pack a command may write
TargetOf(cmd) ==
    IF cmd \in QuestsCommands THEN {"quests"}
    ELSE IF cmd \in ItemsCommands THEN {"items"}
    ELSE IF cmd \in StoreCommands THEN {"store"}
    ELSE {}

\* C28: a command writes at most the pack it targets (a quests command the
\* quests file, an items command the items file, a store command the store
\* file) and every other file is after it what it was before; no command
\* writes the recipes file, and list, show and validate write no file.
C28_WritesOnlyTargetPack ==
    [][/\ last'.cmd \in QuestsCommands \cup ItemsCommands \cup StoreCommands \cup ReadOnlyCommands
       /\ last'.wrote \subseteq TargetOf(last'.cmd)
       /\ \A file \in AllPacks \ TargetOf(last'.cmd) : disk'[file] = disk[file]
       /\ disk'.recipes = disk.recipes]_vars

\* a quests create that wrote the quests file beside an items file and a
\* store file that earlier commands had written
C28_Witness ==
    /\ last.cmd = "quests create" /\ last.wrote = {"quests"}
    /\ Len(ItemsOnDisk) = 2 /\ Len(StoreOnDisk) = 1

-----------------------------------------------------------------------------
(* SpecValidate: the validators applied to document trees.  The packs are  *)
(* drawn at the start; an action is one call of a validator on them.       *)

MaxQuests == 2

BaseQuest(id) ==
    << <<"id", JStr(id)>>, <<"title", JStr("A quest")>>, <<"description", JStr("Text")>>,
       <<"steps", JSeq(<<default_gather_step(JStr("ia"))>>)>>,
       <<"rewards", Obj(<< <<"xp", JInt(50)>> >>)>> >>

QuestWith(id, pairs) == Obj(BaseQuest(id) \o pairs)

Requiring(ids) ==
    << <<"prerequisites",
         Obj(<< <<"requiresQuestsCompleted", JSeq([i \in DOMAIN ids |-> JStr(ids[i])])>> >>)>> >>

StepOf(pairs) == << <<"steps", JSeq(<<Obj(pairs)>>)>> >>

QuestCases ==
    { QuestWith("qa", <<>>),
      QuestWith("qb", <<>>),
      QuestWith("qa", Requiring(<<"qb">>)),
      QuestWith("qb", Requiring(<<"qa">>)),
      QuestWith("qa", Requiring(<<"qc">>)),
      QuestWith("qa", << <<"difficulty", JStr("hard")>> >>),
      QuestWith("qa", << <<"difficulty", JStr("brutal")>> >>),
      QuestWith("qa", << <<"difficulty", EmptyObj>> >>),
      QuestWith("qa", << <<"repeat", Obj(<< <<"kind", EmptyArr>> >>)>> >>),
      QuestWith("qa", << <<"repeat", Obj(<< <<"kind", JStr("daily")>> >>)>> >>),
      QuestWith("qa", << <<"prerequisites", Obj(<< <<"profession", EmptyObj>> >>)>> >>),
      QuestWith("qa", StepOf(<< <<"kind", EmptyArr>>, <<"qty", JInt(1)>> >>)),
      QuestWith("qa", StepOf(<< <<"kind", JStr("gather_item")>>, <<"qty", JInt(1)>>,
                                <<"action", EmptyObj>>, <<"itemId", JStr("ia")>> >>)),
      JNull }

ItemCases ==
    { ItemA,
      Obj(<< <<"id", JStr("ia")>>, <<"name", JStr("Ore")>>, <<"description", JStr("Text")>>,
             <<"market", Obj(<< <<"tradable", JBool(TRUE)>>, <<"category", EmptyArr>> >>)>> >>),
      Obj(<< <<"id", JStr("ia")>>, <<"name", JStr("Ore")>>, <<"description", JStr("Text")>>,
             <<"market", Obj(<< <<"tradable", JBool(TRUE)>>, <<"category", JStr("weapons")>> >>)>> >>) }

StoreEntry(pairs) ==
    Obj(<< <<"itemId", JStr("ia")>>, <<"name", JStr("Ore")>>, <<"buyPrice", JInt(10)>>,
           <<"sellPrice", JInt(8)>> >> \o pairs)

StoreCases ==
    { StoreEntry(<<>>),
      StoreEntry(<< <<"category", JStr("gear")>> >>),
      StoreEntry(<< <<"category", EmptyObj>> >>),
      StoreEntry(<< <<"category", JStr("weapons")>> >>) }

\* the sequences over a set with lengths from..to
RECURSIVE SeqsUpTo(_, _, _)
SeqsUpTo(S, from, to) ==
    IF from > to THEN {}
    ELSE {s \in [1..from -> S] : TRUE} \cup SeqsUpTo(S, from + 1, to)

\* packs whose lists repeat ids: up to MaxEntries entries of one pack
MaxEntries == 3

ItemOf(id) ==
    Obj(<< <<"id", JStr(id)>>, <<"name", JStr("Ore")>>, <<"description", JStr("Text")>> >>)
RecipeOf(id) == Obj(<< <<"id", JStr(id)>> >>)

DupQuestCases == { QuestWith("qa", <<>>), QuestWith("qb", <<>>), QuestWith("Bad Id", <<>>), JNull }
DupItemCases == { ItemOf("ia"), ItemOf("ib"), ItemOf("Bad Id"), JNull }
DupRecipeCases == { RecipeOf("ra"), RecipeOf("rb"), RecipeOf("Bad Id"), JNull }

PacksOf(quests, items, recipes, store) ==
    [quests |-> Pack("quests", quests), items |-> Pack("items", items),
     recipes |-> Pack("recipes", recipes), store |-> Pack("items", store)]

DupInputs ==
    { PacksOf(quests, <<ItemA>>, <<RecipeA>>, <<StoreEntry(<<>>)>>) :
        quests \in SeqsUpTo(DupQuestCases, 0, MaxEntries) }
    \cup
    { PacksOf(<<QuestA>>, items, <<RecipeA>>, <<StoreEntry(<<>>)>>) :
        items \in SeqsUpTo(DupItemCases, 0, MaxEntries) }
    \cup
    { PacksOf(<<QuestA>>, <<ItemA>>, recipes, <<StoreEntry(<<>>)>>) :
        recipes \in SeqsUpTo(DupRecipeCases, 0, MaxEntries) }

\* single entries whose fields hold the values the field rules are about
GatherWith(pairs) ==
    StepOf(<< <<"kind", JStr("gather_item")>>, <<"action", JStr("mine")>>,
              <<"itemId", JStr("ia")>>, <<"qty", JInt(1)>> >> \o pairs)
Tiers(tier_min, tier_max) ==
    GatherWith(<< <<"locationTierMin", tier_min>>, <<"locationTierMax", tier_max>> >>)
RepeatOf(pairs) == << <<"repeat", Obj(pairs)>> >>
RewardsOf(pairs) == << <<"rewards", Obj(pairs)>> >>
Coins(amount) == Obj(<< <<"id", JStr("coins")>>, <<"amount", amount>> >>)
ItemReward(item_id, qty) == Obj(<< <<"itemId", JStr(item_id)>>, <<"qty", qty>> >>)

BooleanQuestCases ==
    { QuestWith("qa", StepOf(<< <<"kind", JStr("fight_win")>>, <<"qty", JBool(TRUE)>> >>)),
      QuestWith("qa", RepeatOf(<< <<"kind", JStr("cooldown")>>, <<"hours", JBool(TRUE)>> >>)),
      QuestWith("qa", << <<"prerequisites", Obj(<< <<"minLevel", JBool(TRUE)>> >>)>> >>),
      QuestWith("qa", RewardsOf(<< <<"xp", JInt(5)>>, <<"tokens", JBool(TRUE)>> >>)),
      QuestWith("qa", RewardsOf(<< <<"currency", JSeq(<<Coins(JBool(TRUE))>>)>> >>)),
      QuestWith("qa", RewardsOf(<< <<"items", JSeq(<<ItemReward("ia", JBool(TRUE))>>)>> >>)),
      QuestWith("qa", GatherWith(<< <<"toolTierMin", JBool(TRUE)>> >>)) }

RewardCases ==
    { QuestWith("qa", RewardsOf(<< <<"xp", JInt(0)>>, <<"tokens", JInt(0)>>,
                                   <<"currency", EmptyArr>>, <<"items", EmptyArr>> >>)),
      QuestWith("qa", RewardsOf(<<>>)),
      QuestWith("qa", RewardsOf(<< <<"xp", JInt(0)>> >>)),
      QuestWith("qa", RewardsOf(<< <<"xp", JBool(TRUE)>> >>)),
      QuestWith("qa", RewardsOf(<< <<"xp", JFloat(25)>> >>)),
      QuestWith("qa", RewardsOf(<< <<"xp", JInt(-1)>>, <<"items", JStr("Ore")>> >>)),
      QuestWith("qa", RewardsOf(<< <<"xp", JInt(0)>>, <<"tokens", JInt(3)>> >>)),
      QuestWith("qa", RewardsOf(<< <<"currency", JNull>>, <<"items", JNull>> >>)),
      QuestWith("qa", RewardsOf(<< <<"currency", JSeq(<<Coins(JInt(1))>>)>> >>)),
      QuestWith("qa", RewardsOf(<< <<"xp", JInt(0)>>, <<"currency", JSeq(<<JNull>>)>> >>)),
      QuestWith("qa", RewardsOf(<< <<"items", JSeq(<<ItemReward("ia", JInt(1))>>)>> >>)),
      QuestWith("qa", << <<"rewards", EmptyArr>> >>) }

ReferenceCases ==
    { QuestWith("qa", GatherWith(<< <<"itemId", JStr("unobtainium")>> >>)),
      QuestWith("qa", StepOf(<< <<"kind", JStr("market_list_item")>>, <<"qty", JInt(1)>>,
                                <<"itemId", JStr("ghost_item")>> >>)),
      QuestWith("qa", StepOf(<< <<"kind", JStr("market_buy_item")>>, <<"qty", JInt(0)>>,
                                <<"itemId", JStr("ib")>> >>)),
      QuestWith("qa", StepOf(<< <<"kind", JStr("market_buy_item")>>, <<"qty", JInt(1)>>,
                                <<"itemId", JStr("Bad Id")>> >>)),
      QuestWith("qa", StepOf(<< <<"kind", JStr("process_item")>>, <<"qty", JInt(1)>>,
                                <<"inputItemId", JStr("ib")>>,
                                <<"outputItemId", JStr("ghost_item")>> >>)),
      QuestWith("qa", StepOf(<< <<"kind", JStr("process_item")>>, <<"qty", JInt(1)>>,
                                <<"inputItemId", JStr("ia")>> >>)),
      QuestWith("qa", StepOf(<< <<"kind", JStr("craft_recipe")>>, <<"qty", JInt(1)>>,
                                <<"recipeId", JStr("rb")>> >>)),
      QuestWith("qa", StepOf(<< <<"kind", JStr("craft_recipe")>>, <<"qty", JInt(1)>>,
                                <<"recipeId", JStr("ra")>> >>)),
      QuestWith("qa", RewardsOf(<< <<"items", JSeq(<<ItemReward("ia", JInt(1)),
                                                     ItemReward("unobtainium", JInt(1)),
                                                     ItemReward("unobtainium", JInt(2))>>)>> >>)) }

RepeatCases ==
    { QuestWith("qa", RepeatOf(<< <<"kind", JStr("cooldown")>> >>)),
      QuestWith("qa", RepeatOf(<< <<"kind", JStr("cooldown")>>, <<"hours", JInt(0)>> >>)),
      QuestWith("qa", RepeatOf(<< <<"kind", JStr("cooldown")>>, <<"hours", JFloat(25)>> >>)),
      QuestWith("qa", RepeatOf(<< <<"kind", JStr("cooldown")>>, <<"hours", JInt(24)>> >>)),
      QuestWith("qa", RepeatOf(<< <<"kind", JStr("none")>>, <<"hours", JInt(0)>> >>)),
      QuestWith("qa", RepeatOf(<< <<"kind", JStr("daily")>>, <<"hours", JStr("Text")>> >>)),
      QuestWith("qa", RepeatOf(<< <<"kind", JStr("weekly")>>, <<"hours", JBool(TRUE)>> >>)),
      QuestWith("qa", RepeatOf(<< <<"kind", JStr("weekly")>> >>)),
      QuestWith("qa", RepeatOf(<< <<"kind", JStr("hourly")>>, <<"hours", JInt(0)>> >>)) }

TierCases ==
    { QuestWith("qa", Tiers(JInt(3), JInt(1))),
      QuestWith("qa", Tiers(JInt(1), JInt(3))),
      QuestWith("qa", Tiers(JInt(2), JInt(2))),
      QuestWith("qa", Tiers(JInt(9), JInt(7))),
      QuestWith("qa", Tiers(JFloat(35), JFloat(15))),
      QuestWith("qa", Tiers(JFloat(15), JFloat(35))),
      QuestWith("qa", Tiers(JBool(TRUE), JBool(FALSE))),
      QuestWith("qa", Tiers(JInt(3), JNull)),
      QuestWith("qa", GatherWith(<< <<"locationTierMin", JInt(3)>> >>)),
      QuestWith("qa", GatherWith(<< <<"locationTierMax", JInt(1)>> >>)) }

MarketOf(pairs) ==
    << <<"market", Obj(<< <<"tradable", JBool(TRUE)>>, <<"category", JStr("gear")>> >>
                       \o pairs)>> >>
ItemWith(pairs) ==
    Obj(<< <<"id", JStr("ia")>>, <<"name", JStr("Ore")>>, <<"description", JStr("Text")>> >>
        \o pairs)

ItemFieldCases ==
    { ItemWith(<< <<"maxStack", JBool(TRUE)>> >>),
      ItemWith(MarketOf(<< <<"minPrice", JBool(TRUE)>> >>)),
      ItemWith(MarketOf(<< <<"maxPrice", JBool(TRUE)>> >>)),
      ItemWith(MarketOf(<< <<"minPrice", JInt(0)>> >>)),
      ItemWith(MarketOf(<< <<"minPrice", JInt(5)>>, <<"maxPrice", JInt(2)>> >>)),
      ItemWith(MarketOf(<< <<"minPrice", JInt(2)>>, <<"maxPrice", JInt(5)>>,
                           <<"suggestedPrice", JInt(3)>> >>)),
      ItemWith(MarketOf(<< <<"suggestedPrice", JInt(0)>> >>)),
      ItemWith(MarketOf(<< <<"suggestedPrice", JStr("Text")>> >>)),
      ItemWith(<< <<"weight", JFloat(15)>>, <<"canStack", JBool(FALSE)>> >>),
      ItemWith(<< <<"weight", JStr("Text")>> >>),
      ItemWith(<< <<"canStack", JInt(5)>> >>) }

StoreFieldCases ==
    { StoreEntry(<< <<"buyPrice", JBool(TRUE)>> >>),
      StoreEntry(<< <<"sellPrice", JBool(TRUE)>> >>),
      StoreEntry(<< <<"stock", JBool(FALSE)>> >>),
      StoreEntry(<< <<"purchaseLimit", JBool(FALSE)>> >>),
      StoreEntry(<< <<"stock", JInt(5)>>, <<"purchaseLimit", JInt(2)>> >>),
      StoreEntry(<< <<"buyPrice", JFloat(15)>> >>) }

\* steps of no known kind, with quantities and kind-specific fields that a
\* step of a known kind would be reported for
StepsOf(steps) == << <<"steps", JSeq(steps)>> >>
StepKindCases ==
    { QuestWith("qa", StepOf(<< <<"kind", JStr("dance")>>, <<"qty", JInt(0)>>,
                                <<"action", JStr("fly")>>, <<"itemId", JStr("ghost_item")>>,
                                <<"locationTierMin", JInt(9)>> >>)),
      QuestWith("qa", StepOf(<< <<"qty", JStr("x")>>, <<"recipeId", JStr("Bad Id")>> >>)),
      QuestWith("qa", StepOf(<< <<"kind", JInt(5)>>, <<"qty", JBool(TRUE)>>,
                                <<"inputItemId", JStr("ghost_item")>> >>)),
      QuestWith("qa", StepOf(<< <<"kind", JStr("Gather_Item")>>, <<"qty", JInt(1)>>,
                                <<"action", JStr("mine")>>, <<"itemId", JStr("ia")>> >>)),
      QuestWith("qa", StepOf(<< <<"kind", JStr("fight_win")>>, <<"qty", JInt(0)>> >>)),
      QuestWith("qa", StepsOf(<< Obj(<< <<"kind", JStr("dance")>>, <<"qty", JInt(0)>> >>),
                                 Obj(<< <<"kind", JStr("fight_win")>>, <<"qty", JInt(0)>> >>),
                                 Obj(<< <<"kind", JBool(FALSE)>> >>) >>)) }

FieldInputs ==
    { PacksOf(<<quest>>, <<ItemA>>, <<RecipeA>>, <<StoreEntry(<<>>)>>) :
        quest \in BooleanQuestCases \cup RewardCases \cup ReferenceCases
                    \cup RepeatCases \cup TierCases \cup StepKindCases }
    \cup
    { PacksOf(<<QuestA>>, <<item>>, <<RecipeA>>, <<StoreEntry(<<>>)>>) : item \in ItemFieldCases }
    \cup
    { PacksOf(<<QuestA>>, <<ItemA>>, <<RecipeA>>, <<entry>>) : entry \in StoreFieldCases }

ValidateInputs ==
    { [quests |-> Pack("quests", quests), items |-> Pack("items", <<ItemA>>),
       recipes |-> Pack("recipes", <<RecipeA>>), store |-> Pack("items", <<StoreEntry(<<>>)>>)] :
        quests \in SeqsUpTo(QuestCases, 0, MaxQuests) }
    \cup
    { [quests |-> Pack("quests", <<QuestA>>), items |-> Pack("items", <<item>>),
       recipes |-> Pack("recipes", <<RecipeA>>), store |-> Pack("items", <<entry>>)] :
        item \in ItemCases, entry \in StoreCases }
    \cup DupInputs \cup FieldInputs

\* the orders in which the members of a set can be listed
RECURSIVE Orders(_)
Orders(S) ==
    IF S = {} THEN {<<>>}
    ELSE UNION { {<<x>> \o rest : rest \in Orders(S \ {x})} : x \in S }

\* the list with its entries in the given order
RECURSIVE Permuted(_, _)
Permuted(entries, order) ==
    IF order = <<>> THEN <<>>
    ELSE <<entries[Head(order)]>> \o Permuted(entries, Tail(order))

NoCheck == [fn |-> "none", order |-> <<>>, result |-> NoIssue]

ValidateInit ==
    /\ vpacks \in ValidateInputs
    /\ vout = NoCheck
    /\ disk = Idle /\ last = Idle /\ pdoc = Idle /\ plast = Idle
    /\ quests_in = Idle /\ dfs = Idle

ValidatePacks ==
    /\ vout' = [fn |-> "validate_packs", order |-> <<>>,
                result |-> validate_packs(vpacks.quests, vpacks.items, vpacks.recipes)]
    /\ UNCHANGED <<vpacks, disk, last, pdoc, plast, quests_in, dfs>>

ValidateStorePack ==
    /\ vout' = [fn |-> "validate_store_pack", order |-> <<>>,
                result |-> validate_store_pack(vpacks.store, PackIds(vpacks.items, "items"))]
    /\ UNCHANGED <<vpacks, disk, last, pdoc, plast, quests_in, dfs>>

\* validate_quest_pack on the quests pack with its list in the given order
ValidateQuestPack(order) ==
    /\ vout' = [fn |-> "validate_quest_pack", order |-> order,
                result |-> validate_quest_pack(
                               Pack("quests", Permuted(get_entries(vpacks.quests, "quests"), order)),
                               PackIds(vpacks.items, "items"),
                               PackIds(vpacks.recipes, "recipes"))]
    /\ UNCHANGED <<vpacks, disk, last, pdoc, plast, quests_in, dfs>>

ValidateNext ==
    \/ ValidatePacks
    \/ ValidateStorePack
    \/ \E order \in Orders(DOMAIN get_entries(vpacks.quests, "quests")) : ValidateQuestPack(order)

SpecValidate == ValidateInit /\ [][ValidateNext]_vars

\* C5: no validator call ends in an exception, whatever the document holds.
C5_ValidatorsNeverRaise == ~vout.result.raised

\* C10: validate_quest_pack reports zero issues for the quests list in any
\* order exactly when it reports zero issues for the list as declared.
C10_OrderIndependent ==
    vout.fn = "validate_quest_pack" =>
        ((vout.result = NoIssue) <=>
            (validate_quest_pack(vpacks.quests, PackIds(vpacks.items, "items"),
                                 PackIds(vpacks.recipes, "recipes")) = NoIssue))

\* a clean pack whose first quest requires the second, validated second-first
C10_Witness ==
    /\ vout.fn = "validate_quest_pack" /\ vout.order = <<2, 1>>
    /\ vout.result = NoIssue
    /\ get_entries(vpacks.quests, "quests")
         = <<QuestWith("qa", Requiring(<<"qb">>)), QuestWith("qb", <<>>)>>

\* how many times x occurs in the list
Count(list, x) == Cardinality({i \in DOMAIN list : list[i] = x})

\* the positions (one-based) of the objects of the list whose id is the string id
Occurrences(entries, id) ==
    {i \in DOMAIN entries : IsDict(entries[i]) /\ Get(entries[i], "id") = JStr(id)}

Least(S) == CHOOSE n \in S : \A m \in S : n <= m

DupIssue(prefix, idx, id) ==
    prefix \o "[" \o ToString(idx) \o "].id: duplicate id '" \o id \o "'"

WellFormedIds == {"qa", "qb", "ia", "ib", "ra", "rb"}

\* the report has the duplicate-id issue of id exactly once at each occurrence
\* of id after the first, and at no other position of the list
DuplicatesReported(issues, entries, prefix, id) ==
    LET occ == Occurrences(entries, id) IN
    \A i \in DOMAIN entries :
        Count(issues, DupIssue(prefix, i - 1, id))
            = IF i \in occ /\ i # Least(occ) THEN 1 ELSE 0

\* C11: when a well-formed id occurs k >= 2 times in the items, the recipes
\* or the quests list, the report of validate_packs holds exactly k-1
\* "duplicate id" issues for it, one at each occurrence after the first.
C11_OneIssuePerDuplicate ==
    (vout.fn = "validate_packs" /\ ~vout.result.raised) =>
        \A id \in WellFormedIds :
            /\ DuplicatesReported(vout.result.issues, get_entries(vpacks.items, "items"),
                                  "$items.items", id)
            /\ DuplicatesReported(vout.result.issues, get_entries(vpacks.recipes, "recipes"),
                                  "$recipes.recipes", id)
            /\ DuplicatesReported(vout.result.issues, get_entries(vpacks.quests, "quests"),
                                  "$quests.quests", id)

\* three items with one id: two duplicate issues, at the second and the third
C11_Witness ==
    /\ vout.fn = "validate_packs" /\ ~vout.result.raised
    /\ get_entries(vpacks.items, "items") = <<ItemOf("ia"), ItemOf("ia"), ItemOf("ia")>>
    /\ Count(vout.result.issues, DupIssue("$items.items", 1, "ia")) = 1
    /\ Count(vout.result.issues, DupIssue("$items.items", 2, "ia")) = 1
    /\ Cardinality({i \in DOMAIN vout.result.issues :
                        vout.result.issues[i] \in {DupIssue("$items.items", n, "ia") : n \in 0..2}}) = 2

Has(issues, text) == \E i \in DOMAIN issues : issues[i] = text

\* the list under key of an object, empty when there is none
ListOf(doc, key) == IF IsDict(doc) /\ IsList(Get(doc, key)) THEN Get(doc, key).v ELSE <<>>

\* the field of an object, null for anything that is not an object
Field(doc, key) == IF IsDict(doc) THEN Get(doc, key) ELSE JNull

\* the object's field holds true or false
BoolAt(doc, key) == IsDict(doc) /\ Get(doc, key).t = "bool"

At(path, name, idx) == path \o "." \o name \o "[" \o ToString(idx) \o "]"

TierKeys == {"locationTierMin", "locationTierMax", "toolTierMin"}

\* every integer field of the quest that holds a boolean has its issue
QuestBooleansReported(issues, quest, path) ==
    LET steps == ListOf(quest, "steps")
        repeat == Field(quest, "repeat")
        prerequisites == Field(quest, "prerequisites")
        rewards == Field(quest, "rewards")
        currency == ListOf(rewards, "currency")
        items == ListOf(rewards, "items")
    IN  /\ \A j \in DOMAIN steps :
              /\ BoolAt(steps[j], "qty") =>
                    Has(issues, At(path, "steps", j - 1) \o ".qty: expected integer >= 1")
              /\ \A key \in TierKeys :
                    (BoolAt(steps[j], key) /\ Get(steps[j], "kind") = JStr("gather_item")) =>
                        Has(issues, At(path, "steps", j - 1) \o "." \o key
                                        \o ": expected integer between 1 and 4")
        /\ (BoolAt(repeat, "hours") /\ Get(repeat, "kind") = JStr("cooldown")) =>
                Has(issues, path \o ".repeat.hours: cooldown repeat requires integer hours >= 1")
        /\ BoolAt(prerequisites, "minLevel") =>
                Has(issues, path \o ".prerequisites.minLevel: expected integer >= 1")
        /\ BoolAt(rewards, "xp") => Has(issues, path \o ".rewards.xp: expected integer >= 0")
        /\ BoolAt(rewards, "tokens") =>
                Has(issues, path \o ".rewards.tokens: expected integer >= 0")
        /\ \A k \in DOMAIN currency :
              BoolAt(currency[k], "amount") =>
                  Has(issues, At(path \o ".rewards", "currency", k - 1)
                                  \o ".amount: expected integer >= 1")
        /\ \A k \in DOMAIN items :
              BoolAt(items[k], "qty") =>
                  Has(issues, At(path \o ".rewards", "items", k - 1)
                                  \o ".qty: expected integer >= 1")

ItemBooleansReported(issues, item, path) ==
    /\ BoolAt(item, "maxStack") => Has(issues, path \o ".maxStack: expected integer >= 1")
    /\ \A key \in {"minPrice", "maxPrice"} :
          BoolAt(Field(item, "market"), key) =>
              Has(issues, path \o ".market." \o key \o ": expected integer >= 1")

\* the report of validate_packs has an issue for every boolean held by an
\* integer field of a quest or an item
SchemaBooleansReported ==
    (vout.fn = "validate_packs" /\ ~vout.result.raised) =>
        /\ \A i \in DOMAIN ListOf(vpacks.quests, "quests") :
              QuestBooleansReported(vout.result.issues, ListOf(vpacks.quests, "quests")[i],
                                    At("$quests", "quests", i - 1))
        /\ \A i \in DOMAIN ListOf(vpacks.items, "items") :
              ItemBooleansReported(vout.result.issues, ListOf(vpacks.items, "items")[i],
                                   At("$items", "items", i - 1))

StoreIntFields ==
    { <<"buyPrice", "1">>, <<"sellPrice", "1">>, <<"stock", "-1">>, <<"purchaseLimit", "0">> }

\* the report of _validate_store_pack has an issue for every boolean held by
\* an integer field of a store entry
StoreBooleansReported ==
    (vout.fn = "validate_store_pack" /\ ~vout.result.raised) =>
        \A i \in DOMAIN ListOf(vpacks.store, "items") :
            \A field \in StoreIntFields :
                BoolAt(ListOf(vpacks.store, "items")[i], field[1]) =>
                    Has(vout.result.issues,
                        At("$store", "items", i - 1) \o "." \o field[1]
                            \o ": expected integer >= " \o field[2])

\* C12: a boolean held by a field the data model constrains to an integer
\* (quest, item and store fields alike) is reported as an issue.
C12_BooleansRejected == SchemaBooleansReported /\ StoreBooleansReported

\* a JSON integer (not a boolean) that is at least low
IntAtLeast(x, low) == x.t = "int" /\ x.v >= low

\* the item constraints of the data model that C13 names
ItemConstraintsHold(item) ==
    LET market == Field(item, "market")
        min_price == Field(market, "minPrice")
        max_price == Field(market, "maxPrice")
        weight == Field(item, "weight")
        can_stack == Field(item, "canStack")
    IN  /\ \A key \in {"suggestedPrice", "minPrice", "maxPrice"} :
              Field(market, key) = JNull \/ IntAtLeast(Field(market, key), 1)
        /\ (min_price.t = "int" /\ max_price.t = "int") => max_price.v >= min_price.v
        /\ weight = JNull \/ weight.t \in {"int", "float"}
        /\ can_stack = JNull \/ can_stack.t = "bool"

\* C13: an items pack that validates with zero issues holds only items whose
\* market.suggestedPrice, minPrice and maxPrice are absent or integers >= 1
\* (maxPrice >= minPrice), whose weight is absent or a number and whose
\* canStack is absent or a boolean.
C13_ItemConstraintsEnforced ==
    (vout.fn = "validate_packs" /\ vout.result = NoIssue) =>
        \A i \in DOMAIN ListOf(vpacks.items, "items") :
            ItemConstraintsHold(ListOf(vpacks.items, "items")[i])

\* the rewards object has none of: an integer xp > 0, an integer tokens > 0,
\* a non-empty currency list, a non-empty items list
NoReward(rewards) ==
    ~ \/ IntAtLeast(Field(rewards, "xp"), 1)
      \/ IntAtLeast(Field(rewards, "tokens"), 1)
      \/ ListOf(rewards, "currency") # <<>>
      \/ ListOf(rewards, "items") # <<>>

RewardIssue(path) == path \o ".rewards: must contain at least one non-zero reward"

\* C14: for a quest whose rewards is an object, the report holds the issue
\* "must contain at least one non-zero reward" at <quest>.rewards, once,
\* exactly when the object has no integer xp > 0, no integer tokens > 0, no
\* non-empty currency list and no non-empty items list.
C14_RewardPresence ==
    (vout.fn = "validate_packs" /\ ~vout.result.raised) =>
        \A i \in DOMAIN ListOf(vpacks.quests, "quests") :
            LET rewards == Field(ListOf(vpacks.quests, "quests")[i], "rewards") IN
            IsDict(rewards) =>
                Count(vout.result.issues, RewardIssue(At("$quests", "quests", i - 1)))
                    = IF NoReward(rewards) THEN 1 ELSE 0

\* rewards = {xp: 0, tokens: 0, currency: [], items: []}: the one issue
C14_Witness ==
    /\ vout.fn = "validate_packs"
    /\ ListOf(vpacks.quests, "quests")
          = <<QuestWith("qa", RewardsOf(<< <<"xp", JInt(0)>>, <<"tokens", JInt(0)>>,
                                          <<"currency", EmptyArr>>, <<"items", EmptyArr>> >>))>>
    /\ vout.result = Issues(<<RewardIssue("$quests.quests[0]")>>)

\* the id references of a step of the given kind: <<field, pack>>
RefFields(kind) ==
    CASE kind \in {JStr("gather_item"), JStr("market_list_item"), JStr("market_buy_item")} ->
            { <<"itemId", "item">> }
      [] kind = JStr("process_item") -> { <<"inputItemId", "item">>, <<"outputItemId", "item">> }
      [] kind = JStr("craft_recipe") -> { <<"recipeId", "recipe">> }
      [] OTHER -> {}

UnknownIssue(path, field, what, id) ==
    path \o "." \o field \o ": unknown " \o what \o " '" \o id \o "'"

\* a well-formed id in doc[field] has its "unknown" issue exactly once when
\* the id is not a known one, and not at all when it is
RefReported(issues, doc, path, field, what, known_ids) ==
    LET ref == Field(doc, field) IN
    is_valid_content_id(ref) =>
        Count(issues, UnknownIssue(path, field, what, ref.v))
            = IF ref.v \in known_ids THEN 0 ELSE 1

QuestRefsReported(issues, quest, path, item_ids, recipe_ids) ==
    LET steps == ListOf(quest, "steps")
        items == ListOf(Field(quest, "rewards"), "items")
    IN  /\ \A j \in DOMAIN steps :
              \A ref \in RefFields(Field(steps[j], "kind")) :
                  RefReported(issues, steps[j], At(path, "steps", j - 1), ref[1], ref[2],
                              IF ref[2] = "item" THEN item_ids ELSE recipe_ids)
        /\ \A k \in DOMAIN items :
              RefReported(issues, items[k], At(path \o ".rewards", "items", k - 1),
                          "itemId", "item", item_ids)

\* C15: a well-formed id in a reference field of a quest (a step's itemId,
\* inputItemId, outputItemId or recipeId, an item reward's itemId) that is
\* not an id of the referenced pack has exactly one "unknown item '<id>'" /
\* "unknown recipe '<id>'" issue at the path of that field.
C15_DanglingReference ==
    (vout.fn = "validate_packs" /\ ~vout.result.raised) =>
        \A i \in DOMAIN ListOf(vpacks.quests, "quests") :
            QuestRefsReported(vout.result.issues, ListOf(vpacks.quests, "quests")[i],
                              At("$quests", "quests", i - 1),
                              PackIds(vpacks.items, "items"), PackIds(vpacks.recipes, "recipes"))

\* a gather step whose itemId is "unobtainium": the one issue
C15_Witness ==
    /\ vout.fn = "validate_packs"
    /\ ListOf(vpacks.quests, "quests")
          = <<QuestWith("qa", GatherWith(<< <<"itemId", JStr("unobtainium")>> >>))>>
    /\ vout.result = Issues(<<"$quests.quests[0].steps[0].itemId: unknown item 'unobtainium'">>)

HoursIssue(path) == path \o ".repeat.hours: cooldown repeat requires integer hours >= 1"

\* C18: for a quest whose repeat is an object, kind cooldown without an
\* integer hours >= 1 has the issue "cooldown repeat requires integer hours
\* >= 1" at <quest>.repeat.hours, once; kind none, daily or weekly has no
\* such issue whatever hours holds.
C18_HoursIffCooldown ==
    (vout.fn = "validate_packs" /\ ~vout.result.raised) =>
        \A i \in DOMAIN ListOf(vpacks.quests, "quests") :
            LET repeat == Field(ListOf(vpacks.quests, "quests")[i], "repeat")
                found == Count(vout.result.issues, HoursIssue(At("$quests", "quests", i - 1)))
            IN  /\ Field(repeat, "kind") = JStr("cooldown") =>
                      found = IF IntAtLeast(Field(repeat, "hours"), 1) THEN 0 ELSE 1
                /\ Field(repeat, "kind") \in {JStr("none"), JStr("daily"), JStr("weekly")} =>
                      found = 0

\* repeat = {kind: "cooldown"}: the one issue
C18_Witness ==
    /\ vout.fn = "validate_packs"
    /\ ListOf(vpacks.quests, "quests")
          = <<QuestWith("qa", RepeatOf(<< <<"kind", JStr("cooldown")>> >>))>>
    /\ vout.result = Issues(<<HoursIssue("$quests.quests[0]")>>)

\* a JSON number, and its value in tenths
IsNumber(x) == x.t \in {"int", "float"}
Tenths(x) == IF x.t = "int" THEN 10 * x.v ELSE x.v

OrderIssue(path) == path \o ".locationTierMax: must be >= locationTierMin"

\* the gather steps of the packs under validation: <<quest index, step index>>
GatherSteps ==
    { at \in UNION { {<<i, j>> : j \in DOMAIN ListOf(ListOf(vpacks.quests, "quests")[i], "steps")} :
                      i \in DOMAIN ListOf(vpacks.quests, "quests") } :
        Field(ListOf(ListOf(vpacks.quests, "quests")[at[1]], "steps")[at[2]], "kind")
            = JStr("gather_item") }

StepAt(at) == ListOf(ListOf(vpacks.quests, "quests")[at[1]], "steps")[at[2]]
StepPath(at) == At(At("$quests", "quests", at[1] - 1), "steps", at[2] - 1)

\* no "must be >= locationTierMin" issue when one of the two tiers is not
\* given, or when both are numbers and locationTierMax >= locationTierMin
NoOrderIssueOtherwise(at) ==
    LET tier_min == Field(StepAt(at), "locationTierMin")
        tier_max == Field(StepAt(at), "locationTierMax")
    IN  (\/ tier_min = JNull \/ tier_max = JNull
         \/ (IsNumber(tier_min) /\ IsNumber(tier_max) /\ Tenths(tier_max) >= Tenths(tier_min)))
            => Count(vout.result.issues, OrderIssue(StepPath(at))) = 0

\* C19 as stated: a gather step in which both tiers are given and
\* locationTierMax < locationTierMin has the issue "must be >=
\* locationTierMin" at <step>.locationTierMax; with only one given, or
\* locationTierMax >= locationTierMin, it has none.
C19_AnyNumbers ==
    (vout.fn = "validate_packs" /\ ~vout.result.raised) =>
        \A at \in GatherSteps :
            LET tier_min == Field(StepAt(at), "locationTierMin")
                tier_max == Field(StepAt(at), "locationTierMax")
            IN  /\ (IsNumber(tier_min) /\ IsNumber(tier_max)
                        /\ Tenths(tier_max) < Tenths(tier_min))
                      => Count(vout.result.issues, OrderIssue(StepPath(at))) = 1
                /\ NoOrderIssueOtherwise(at)

\* C19: as above, for tiers given as integers: two integer tiers with
\* locationTierMax < locationTierMin have the issue, once.
C19_TierOrder ==
    (vout.fn = "validate_packs" /\ ~vout.result.raised) =>
        \A at \in GatherSteps :
            LET tier_min == Field(StepAt(at), "locationTierMin")
                tier_max == Field(StepAt(at), "locationTierMax")
            IN  /\ (tier_min.t = "int" /\ tier_max.t = "int" /\ tier_max.v < tier_min.v)
                      => Count(vout.result.issues, OrderIssue(StepPath(at))) = 1
                /\ NoOrderIssueOtherwise(at)

\* locationTierMin 3, locationTierMax 1: the one issue
C19_Witness ==
    /\ vout.fn = "validate_packs"
    /\ ListOf(vpacks.quests, "quests") = <<QuestWith("qa", Tiers(JInt(3), JInt(1)))>>
    /\ vout.result = Issues(<<OrderIssue("$quests.quests[0].steps[0]")>>)

\* the step is an object whose kind is none of QUEST_STEP_KINDS
UnknownKind(step) ==
    /\ IsDict(step)
    /\ ~Unhashable(Get(step, "kind"))
    /\ ~InStrings(Get(step, "kind"), QUEST_STEP_KINDS)

AllSteps ==
    UNION { {<<i, j>> : j \in DOMAIN ListOf(ListOf(vpacks.quests, "quests")[i], "steps")} :
              i \in DOMAIN ListOf(vpacks.quests, "quests") }

UnknownKindSteps == { at \in AllSteps : UnknownKind(StepAt(at)) }

KindIssue(at) ==
    StepPath(at) \o ".kind: invalid step kind '" \o PyStr(Get(StepAt(at), "kind")) \o "'"

\* a step no validator reports
CleanStep == Obj(<< <<"kind", JStr("fight_win")>>, <<"qty", JInt(1)>> >>)

\* the quests pack with every step of unknown kind replaced by a clean step
WithoutUnknownKinds ==
    LET quests == ListOf(vpacks.quests, "quests")
        fixed(quest) ==
            IF ListOf(quest, "steps") = <<>> THEN quest
            ELSE Put(quest, "steps",
                     JSeq([j \in DOMAIN ListOf(quest, "steps") |->
                             IF UnknownKind(ListOf(quest, "steps")[j]) THEN CleanStep
                             ELSE ListOf(quest, "steps")[j]]))
    IN  Pack("quests", [i \in DOMAIN quests |-> fixed(quests[i])])

\* C22: a step whose kind is none of the six known kinds gets the one issue
\* "invalid step kind" and nothing else: the report is the report of the pack
\* with these steps replaced by clean steps, plus one kind issue per step.
C22_UnknownKindOnly ==
    (vout.fn = "validate_packs" /\ ~vout.result.raised) =>
        LET rest == validate_packs(WithoutUnknownKinds, vpacks.items, vpacks.recipes).issues
            kind_issues == { KindIssue(at) : at \in UnknownKindSteps }
            texts == { vout.result.issues[i] : i \in DOMAIN vout.result.issues }
                        \cup { rest[i] : i \in DOMAIN rest } \cup kind_issues
        IN  /\ Cardinality(kind_issues) = Cardinality(UnknownKindSteps)
            /\ \A text \in texts :
                 Count(vout.result.issues, text)
                    = Count(rest, text) + (IF text \in kind_issues THEN 1 ELSE 0)

\* a step of kind "dance" with qty 0 and an unknown itemId: the one issue
C22_Witness ==
    /\ vout.fn = "validate_packs"
    /\ UnknownKindSteps = {<<1, 1>>}
    /\ Get(StepAt(<<1, 1>>), "qty") = JInt(0)
    /\ Get(StepAt(<<1, 1>>), "itemId") = JStr("ghost_item")
    /\ vout.result = Issues(<<"$quests.quests[0].steps[0].kind: invalid step kind 'dance'">>)

-----------------------------------------------------------------------------
(* SpecStore: the store commands run one after another on a pack directory *)
(* whose store file is absent, empty, without an "items" key or filled.    *)
(* Besides the outcome, a run records the store file as it was before the  *)
(* command (before), the document _load_store_pack returned (loaded) and,  *)
(* for store add, the document in memory when the item id is looked up     *)
(* (checked).                                                              *)

ItemB == Obj(<< <<"id", JStr("ib")>>, <<"name", JStr("Ore")>>, <<"description", JStr("Text")>>,
                <<"value", JInt(20)>> >>)

StoreFiles ==
    { NoFile,
      Obj(<< <<"schemaVersion", JInt(1)>> >>),
      Pack("items", <<>>),
      Pack("items", <<StoreEntry(<<>>)>>) }

StoreDisks ==
    { [quests |-> Pack("quests", <<QuestA>>), items |-> Pack("items", <<ItemA, ItemB>>),
       recipes |-> Pack("recipes", <<RecipeA>>), store |-> file] : file \in StoreFiles }

StoreAddCases ==
    { [StoreAddDefaults EXCEPT !.item_id = "ia"],
      [StoreAddDefaults EXCEPT !.item_id = "ib"],
      [StoreAddDefaults EXCEPT !.item_id = "ghost_item"],
      [StoreAddDefaults EXCEPT !.item_id = "ib", !.buy_price = JInt(100)],
      [StoreAddDefaults EXCEPT !.item_id = "ib", !.sell_price = JInt(3)],
      [StoreAddDefaults EXCEPT !.item_id = "ib", !.buy_price = JInt(100),
                               !.sell_price = JInt(50)] }
StoreRemoveCases == {"ia", "ib"}
StoreSetCases ==
    { <<"ia", <<"stock">>, <<"5">> >>,
      <<"ib", <<"available">>, <<"false">> >>,
      <<"ib", <<"buyPrice">>, <<"0">> >>,
      <<"ghost_item", <<"stock">>, <<"5">> >> }

NoStoreRun ==
    [cmd |-> "none", args |-> <<>>, err |-> "none", wrote |-> {},
     before |-> NoFile, loaded |-> JNull, checked |-> JNull]

StoreInit ==
    /\ disk \in StoreDisks
    /\ last = NoStoreRun
    /\ pdoc = Idle /\ plast = Idle /\ vpacks = Idle /\ vout = Idle
    /\ quests_in = Idle /\ dfs = Idle

StoreRan(cmd, args, run, checked) ==
    /\ disk' = [disk EXCEPT !.store = run.store]
    /\ last' = [cmd |-> cmd, args |-> args, err |-> run.err, wrote |-> run.wrote,
                before |-> disk.store, loaded |-> load_store_pack(disk), checked |-> checked]
    /\ UNCHANGED <<pdoc, plast, vpacks, vout, quests_in, dfs>>

StoreAddRun(args) ==
    StoreRan("store add", args, cmd_store_add(disk, args),
             store_setdefault(load_store_pack(disk)))
StoreRemoveRun(item_id) ==
    StoreRan("store remove", item_id, cmd_store_remove(disk, item_id), JNull)
StoreSetRun(item_id, path, raw) ==
    StoreRan("store set", <<item_id, path, raw>>, cmd_store_set(disk, item_id, path, raw), JNull)

StoreNext ==
    \/ \E args \in StoreAddCases : StoreAddRun(args)
    \/ \E item_id \in StoreRemoveCases : StoreRemoveRun(item_id)
    \/ \E a \in StoreSetCases : StoreSetRun(a[1], a[2], a[3])

SpecStore == StoreInit /\ [][StoreNext]_vars

\* the last command was store add of an id that no item of the items pack has
AddOfUnknownItem ==
    /\ last.cmd = "store add"
    /\ last.args.item_id \notin PackIds(disk.items, "items")

\* C16 as stated: store add of an id absent from the items pack fails with
\* NotFoundError, the store file is as it was before the command and the
\* store document in memory is as it was loaded.
C16_NothingMutated ==
    AddOfUnknownItem =>
        /\ last.err = "NotFoundError"
        /\ disk.store = last.before
        /\ last.checked = last.loaded

\* C16: store add of an id absent from the items pack fails with
\* NotFoundError and writes nothing: the store file is as it was before the
\* command, and the store document in memory is as it was loaded except
\* that a document loaded without an "items" key has gained "items": [].
C16_NotFoundWritesNothing ==
    AddOfUnknownItem =>
        /\ last.err = "NotFoundError" /\ last.wrote = {}
        /\ disk.store = last.before
        /\ IF "items" \in DOMAIN last.loaded.v THEN last.checked = last.loaded
           ELSE last.checked = Put(last.loaded, "items", EmptyArr)

\* store add ghost_item on a directory with a filled store file
C16_Witness ==
    /\ AddOfUnknownItem /\ last.args.item_id = "ghost_item"
    /\ last.err = "NotFoundError"
    /\ last.before = Pack("items", <<StoreEntry(<<>>)>>)
    /\ disk.store = last.before /\ last.checked = last.before

\* the entry the last store add appended to the store file
AddedEntry == ListOf(disk.store, "items")[Len(ListOf(disk.store, "items"))]

\* C20: a store add without --sell-price stores a sellPrice that is 85%,
\* rounded down, of the buyPrice stored in the same entry, with or without
\* --buy-price.
C20_SellPriceFromBuyPrice ==
    (last.cmd = "store add" /\ last.err = "none" /\ last.args.sell_price = JNull) =>
        Get(AddedEntry, "sellPrice") = JInt((Get(AddedEntry, "buyPrice").v * 85) \div 100)

-----------------------------------------------------------------------------
(* SpecCycle: _find_circular_quest_deps (validation/cross_refs.py) run on  *)
(* a quests list, one step of the search per action.  A frame is one       *)
(* activation of dfs: its node and the position of the neighbour it calls  *)
(* next (0 until the activation has passed its two entry tests).           *)

MaxCycleQuests == 3

CycleQuest(id, requires) ==
    Obj(<< <<"id", JStr(id)>> >>
        \o IF requires = <<>> THEN <<>> ELSE Requiring(requires))

CycleQuestCases ==
    { CycleQuest("qa", <<>>), CycleQuest("qa", <<"qb">>), CycleQuest("qa", <<"qa">>),
      CycleQuest("qa", <<"qb", "qb">>), CycleQuest("qa", <<"qa", "qa">>),
      CycleQuest("qb", <<>>), CycleQuest("qb", <<"qa">>), CycleQuest("qb", <<"qc">>),
      CycleQuest("qc", <<>>), CycleQuest("qc", <<"qa">>), CycleQuest("qc", <<"qd">>),
      JStr("Text") }

CycleInputs == SeqsUpTo(CycleQuestCases, 0, MaxCycleQuests)

\* [r for r in requires if isinstance(r, str)]
RECURSIVE StringsOf(_)
StringsOf(requires) ==
    IF requires = <<>> THEN <<>>
    ELSE (IF IsStr(Head(requires)) THEN <<Head(requires).v>> ELSE <<>>)
             \o StringsOf(Tail(requires))

\* the requirement list stored in deps for one quest
DepsOf(quest) ==
    LET prereqs == GetOr(quest, "prerequisites", EmptyObj)
        requires == IF IsDict(prereqs)
                    THEN GetOr(prereqs, "requiresQuestsCompleted", EmptyArr) ELSE EmptyArr
    IN IF IsList(requires) THEN StringsOf(requires.v) ELSE <<>>

\* the quest at position i is given a key in deps, and the key is id
DeclaresAt(quests, i, id) ==
    /\ IsDict(quests[i])
    /\ Get(quests[i], "id") = JStr(id)
    /\ is_valid_content_id(Get(quests[i], "id"))

\* the quest at position i is given a key in deps
Declares(quests, i) == IsDict(quests[i]) /\ is_valid_content_id(Get(quests[i], "id"))

\* the loop that builds deps: the keys in insertion order (a key keeps the
\* place of its first assignment) and the lists (of its last assignment)
BuildDeps(quests) ==
    [keys |->
        SelectSeq([i \in DOMAIN quests |->
                      IF /\ Declares(quests, i)
                         /\ \A j \in 1..(i - 1) : ~DeclaresAt(quests, j, Get(quests[i], "id").v)
                      THEN Get(quests[i], "id").v ELSE ""],
                  LAMBDA key : key # ""),
     deps |->
        [k \in { Get(quests[i], "id").v : i \in { j \in DOMAIN quests : Declares(quests, j) } } |->
            DepsOf(quests[CHOOSE i \in DOMAIN quests :
                            /\ DeclaresAt(quests, i, k)
                            /\ \A j \in (i + 1)..Len(quests) : ~DeclaresAt(quests, j, k)])]]

\* deps.get(node, [])
Neighbors(deps, node) == IF node \in DOMAIN deps THEN deps[node] ELSE <<>>

\* mutant: the reported cycle starts at the root of the search
IndexOf_Root(path, node, from) == 1

\* mutant: the entry tests of dfs without "node in visited"
dfs_entry_NoVisited(node, visited, rec_stack) ==
    IF node \in rec_stack THEN "cycle" ELSE "visit"

\* path.index(node)
RECURSIVE IndexOf(_, _, _)
IndexOf(path, node, from) ==
    IF path[from] = node THEN from ELSE IndexOf(path, node, from + 1)

\* the entry tests of dfs with "node in visited" asked first
dfs_entry_VisitedFirst(node, visited, rec_stack) ==
    IF node \in visited THEN "return"
    ELSE IF node \in rec_stack THEN "cycle"
    ELSE "visit"

\* the entry tests of dfs: what the activation does with its node
dfs_entry(node, visited, rec_stack) ==
    IF node \in rec_stack THEN "cycle"
    ELSE IF node \in visited THEN "return"
    ELSE "visit"

CycleInit ==
    /\ quests_in \in CycleInputs
    /\ dfs = [phase |-> "start", keys |-> <<>>, deps |-> <<>>, cursor |-> 1, cycles |-> <<>>,
              visited |-> {}, rec_stack |-> {}, path |-> <<>>, frames |-> <<>>]
    /\ disk = Idle /\ last = Idle /\ pdoc = Idle /\ plast = Idle
    /\ vpacks = Idle /\ vout = Idle

Top == dfs.frames[Len(dfs.frames)]
Popped == SubSeq(dfs.frames, 1, Len(dfs.frames) - 1)
Others == <<quests_in, disk, last, pdoc, plast, vpacks, vout>>

BuildGraph ==
    /\ dfs.phase = "start"
    /\ LET built == BuildDeps(quests_in) IN
       dfs' = [dfs EXCEPT !.phase = "loop", !.keys = built.keys, !.deps = built.deps]
    /\ UNCHANGED Others

\* for quest_id in deps: quest_id is in visited
OuterSkip ==
    /\ dfs.phase = "loop" /\ dfs.frames = <<>> /\ dfs.cursor <= Len(dfs.keys)
    /\ dfs.keys[dfs.cursor] \in dfs.visited
    /\ dfs' = [dfs EXCEPT !.cursor = @ + 1]
    /\ UNCHANGED Others

\* for quest_id in deps: dfs(quest_id, [])
OuterCall ==
    /\ dfs.phase = "loop" /\ dfs.frames = <<>> /\ dfs.cursor <= Len(dfs.keys)
    /\ dfs.keys[dfs.cursor] \notin dfs.visited
    /\ dfs' = [dfs EXCEPT !.cursor = @ + 1, !.path = <<>>,
                          !.frames = <<[node |-> dfs.keys[dfs.cursor], next |-> 0]>>]
    /\ UNCHANGED Others

\* return cycles
Finish ==
    /\ dfs.phase = "loop" /\ dfs.frames = <<>> /\ dfs.cursor > Len(dfs.keys)
    /\ dfs' = [dfs EXCEPT !.phase = "done"]
    /\ UNCHANGED Others

\* node in rec_stack: record path[cycle_start:] + [node] and return
DfsCycle ==
    /\ dfs.frames # <<>> /\ Top.next = 0
    /\ dfs_entry(Top.node, dfs.visited, dfs.rec_stack) = "cycle"
    /\ dfs' = [dfs EXCEPT
                 !.cycles = Append(@, SubSeq(dfs.path, IndexOf(dfs.path, Top.node, 1),
                                             Len(dfs.path)) \o <<Top.node>>),
                 !.frames = Popped]
    /\ UNCHANGED Others

\* node in visited: return
DfsVisited ==
    /\ dfs.frames # <<>> /\ Top.next = 0
    /\ dfs_entry(Top.node, dfs.visited, dfs.rec_stack) = "return"
    /\ dfs' = [dfs EXCEPT !.frames = Popped]
    /\ UNCHANGED Others

\* visited.add(node); rec_stack.add(node); path.append(node)
DfsVisit ==
    /\ dfs.frames # <<>> /\ Top.next = 0
    /\ dfs_entry(Top.node, dfs.visited, dfs.rec_stack) = "visit"
    /\ dfs' = [dfs EXCEPT !.visited = @ \cup {Top.node}, !.rec_stack = @ \cup {Top.node},
                          !.path = Append(@, Top.node),
                          !.frames = Append(Popped, [node |-> Top.node, next |-> 1])]
    /\ UNCHANGED Others

\* The number of nested activations of dfs the interpreter allows: CPython
\* raises RecursionError on the call that would exceed its recursion limit.
\* With the default limit of 1000 a call of _find_circular_quest_deps from
\* module level gets 995 activations; the model scales the limit down, and
\* keeps it above the depth the lists of CycleInputs need (at most four ids).
DfsDepthLimit == 6

\* for neighbor in deps.get(node, []): dfs(neighbor, path)
DfsNeighbor ==
    /\ dfs.frames # <<>> /\ Top.next >= 1
    /\ Top.next <= Len(Neighbors(dfs.deps, Top.node))
    /\ Len(dfs.frames) < DfsDepthLimit
    /\ dfs' = [dfs EXCEPT
                 !.frames = Append(Popped, [node |-> Top.node, next |-> Top.next + 1])
                                \o <<[node |-> Neighbors(dfs.deps, Top.node)[Top.next],
                                      next |-> 0]>>]
    /\ UNCHANGED Others

\* path.pop(); rec_stack.remove(node)
DfsReturn ==
    /\ dfs.frames # <<>> /\ Top.next >= 1
    /\ Top.next > Len(Neighbors(dfs.deps, Top.node))
    /\ dfs' = [dfs EXCEPT !.path = SubSeq(@, 1, Len(@) - 1),
                          !.rec_stack = @ \ {Top.node},
                          !.frames = Popped]
    /\ UNCHANGED Others

\* dfs(neighbor, path) at the depth limit: the call raises RecursionError,
\* which no activation catches; visited, rec_stack and path stay as they are
DfsOverflow ==
    /\ dfs.frames # <<>> /\ Top.next >= 1
    /\ Top.next <= Len(Neighbors(dfs.deps, Top.node))
    /\ Len(dfs.frames) >= DfsDepthLimit
    /\ dfs' = [dfs EXCEPT !.phase = "RecursionError", !.frames = <<>>]
    /\ UNCHANGED Others

CycleNext ==
    \/ BuildGraph
    \/ OuterSkip
    \/ OuterCall
    \/ Finish
    \/ DfsCycle
    \/ DfsVisited
    \/ DfsVisit
    \/ DfsNeighbor
    \/ DfsReturn

SpecCycle == CycleInit /\ [][CycleNext]_vars

\* the declared quests with a well-formed id
Declared(quests) ==
    {j \in DOMAIN quests : IsDict(quests[j]) /\ is_valid_content_id(Get(quests[j], "id"))}

\* no quest id is declared twice
DistinctIds(quests) ==
    \A i, j \in Declared(quests) : Get(quests[i], "id") = Get(quests[j], "id") => i = j

\* some reported cycle contains both ids
ReportedWith(a, b) ==
    \E i \in DOMAIN dfs.cycles :
        /\ \E k \in DOMAIN dfs.cycles[i] : dfs.cycles[i][k] = a
        /\ \E k \in DOMAIN dfs.cycles[i] : dfs.cycles[i][k] = b

\* what C9 says of a finished search
CycleOutcome ==
    /\ (Cyclic(Edges(quests_in)) <=> dfs.cycles # <<>>)
    /\ \A e \in Edges(quests_in) :
          (e[1] # e[2] /\ <<e[2], e[1]>> \in Edges(quests_in)) => ReportedWith(e[1], e[2])

\* C9 as stated: for any quests list, the finished search reports a cycle
\* exactly when the prerequisite graph of the list (a property of the set of
\* declared requirements, not of their order) has one, and for quests a and b
\* requiring each other some reported cycle contains both.
C9_AnyList == dfs.phase = "done" => CycleOutcome

\* C9: as above, for a quests list in which no id is declared twice.
C9_CycleReported == (dfs.phase = "done" /\ DistinctIds(quests_in)) => CycleOutcome

\* qb is declared before qa, each requires the other
C9_Witness ==
    /\ dfs.phase = "done"
    /\ quests_in = <<CycleQuest("qb", <<"qa">>), CycleQuest("qa", <<"qb">>)>>
    /\ dfs.cycles = << <<"qb", "qa", "qb">> >>

\* C23: the returned list holds no cycle twice.
C23_NoCycleTwice ==
    dfs.phase = "done" =>
        \A i, j \in DOMAIN dfs.cycles : dfs.cycles[i] = dfs.cycles[j] => i = j

\* C29: the search has no false positives.  For an acyclic prerequisite
\* graph the returned list is empty, and every returned cycle is a list of
\* at least two ids that starts and ends with the same id and in which each
\* id requires the next.
C29_CyclesAreReal ==
    dfs.phase = "done" =>
        /\ ~Cyclic(Edges(quests_in)) => dfs.cycles = <<>>
        /\ \A i \in DOMAIN dfs.cycles :
             LET cycle == dfs.cycles[i] IN
             /\ Len(cycle) >= 2
             /\ cycle[1] = cycle[Len(cycle)]
             /\ \A k \in 1..(Len(cycle) - 1) : <<cycle[k], cycle[k + 1]>> \in Edges(quests_in)

\* qc leads into the cycle of qa and qb: the report starts at qa, not at qc
C29_Witness ==
    /\ dfs.phase = "done"
    /\ quests_in = <<CycleQuest("qc", <<"qa">>), CycleQuest("qa", <<"qb">>),
                     CycleQuest("qb", <<"qa">>)>>
    /\ dfs.cycles = << <<"qa", "qb", "qa">> >>

\* a chain of quests, each requiring the next: q1 -> q2 -> ... (the last
\* requirement is not declared); it needs ChainLen + 1 nested activations
ChainInput == [i \in 1..ChainLen |-> CycleQuest(ChainId(i), <<ChainId(i + 1)>>)]

DeepInit ==
    /\ quests_in \in CycleInputs \cup {ChainInput}
    /\ dfs = [phase |-> "start", keys |-> <<>>, deps |-> <<>>, cursor |-> 1, cycles |-> <<>>,
              visited |-> {}, rec_stack |-> {}, path |-> <<>>, frames |-> <<>>]
    /\ disk = Idle /\ last = Idle /\ pdoc = Idle /\ plast = Idle
    /\ vpacks = Idle /\ vout = Idle

DeepNext == CycleNext \/ DfsOverflow

\* SpecCycleFair: the search, on the small lists and on the chain, keeps
\* running until it returns or raises.
SpecCycleFair == DeepInit /\ [][DeepNext]_vars /\ WF_vars(DeepNext)

\* the activations that are in their neighbour loop: all but a top one that
\* has not passed its entry tests
Expanding ==
    LET depth == IF dfs.frames # <<>> /\ Top.next = 0 THEN Len(dfs.frames) - 1
                 ELSE Len(dfs.frames)
    IN  [k \in 1..depth |-> dfs.frames[k].node]

\* a step that starts the expansion of a node: the node was not visited
\* before, and is from then on
ExpandsUnvisited ==
    Len(dfs'.path) > Len(dfs.path) =>
        /\ dfs'.path = Append(dfs.path, dfs'.path[Len(dfs'.path)])
        /\ dfs'.path[Len(dfs'.path)] \notin dfs.visited
        /\ dfs'.path[Len(dfs'.path)] \in dfs'.visited

\* the search has ended: it returned or an exception left it
Ended == dfs.phase \in {"done", "RecursionError"}

\* no node is expanded twice, and the nodes being expanded are the current
\* path and the recursion stack
ExpandedOnce ==
    /\ [][dfs.visited \subseteq dfs'.visited /\ ExpandsUnvisited]_vars
    /\ [](~Ended =>
            /\ Expanding = dfs.path
            /\ dfs.rec_stack = {dfs.path[k] : k \in DOMAIN dfs.path}
            /\ Cardinality(dfs.rec_stack) = Len(dfs.path)
            /\ dfs.rec_stack \subseteq dfs.visited)

\* C30: the search terminates on every quests list.  A node is marked
\* visited when its expansion starts, stays visited, and only an unvisited
\* node is expanded, so no node is expanded twice; when the search ends, the
\* path and the recursion stack are empty.
C30_Terminates ==
    /\ <>(dfs.phase = "done")
    /\ ExpandedOnce
    /\ [](Ended => (dfs.frames = <<>> /\ dfs.rec_stack = {} /\ dfs.path = <<>>))

\* the same statement for the lists of at most MaxCycleQuests quests
C30_ShallowTerminates ==
    /\ (quests_in \in CycleInputs) ~> (dfs.phase = "done")
    /\ ExpandedOnce
    /\ []((quests_in \in CycleInputs /\ Ended) =>
            (dfs.frames = <<>> /\ dfs.rec_stack = {} /\ dfs.path = <<>>))

\* a finished search of a graph with a cycle, a requirement listed twice and
\* a reference to an undeclared id
C30_Witness ==
    /\ dfs.phase = "done"
    /\ quests_in = <<CycleQuest("qa", <<"qb", "qb">>), CycleQuest("qb", <<"qa">>),
                     CycleQuest("qc", <<"qd">>)>>
    /\ dfs.visited = {"qa", "qb", "qc", "qd"}
    /\ dfs.cycles # <<>>
    /\ dfs.rec_stack = {} /\ dfs.path = <<>>

-----------------------------------------------------------------------------
(* SpecFind: quests delete and items delete, of the package and of the     *)
(* script src/tools/rpg_content_cli.py, run one after another on pack      *)
(* files whose lists repeat ids and hold entries that are not objects.     *)

\* NotFoundError(entity_type, entity_id), and the script's
\* CliError(f"{label} '{entry_id}' not found"): what the message names
NotFound(entity_type, entity_id) == [entity |-> entity_type, id |-> entity_id]
NoError == [entity |-> "", id |-> ""]

\* ContentPacks.find_quest / find_item: the zero-based index it returns
find_by_id(pack, key, entity_type, id) ==
    LET at == find_entry(get_entries(pack, key), 1, "id", id) IN
    [index |-> at - 1, raised |-> IF at = 0 THEN NotFound(entity_type, id) ELSE NoError]

\* the script's find_entry(entries, entry_id, label)
legacy_find_entry(entries, entry_id, label) ==
    LET at == find_entry(entries, 1, "id", entry_id) IN
    [index |-> at - 1, raised |-> IF at = 0 THEN NotFound(label, entry_id) ELSE NoError]

\* the script's _save_if_valid: a CliError carries the issues
legacy_save_if_valid(d, quests_pack, items_pack, write_quests, write_items) ==
    LET run == save_if_valid(d, quests_pack, items_pack, write_quests, write_items) IN
    IF run.err = "ValidationError" THEN [run EXCEPT !.err = "CliError"] ELSE run

\* [entry for entry in quests if isinstance(entry, dict)]
OnlyDicts(entries) == SelectSeq(entries, LAMBDA entry : IsDict(entry))

\* the script's cmd_quests_delete (key "quests", label "Quest") and
\* cmd_items_delete (key "items", label "Item")
legacy_cmd_delete(d, key, id, label) ==
    LET pack == IF key = "quests" THEN d.quests ELSE d.items
        entries == GetOr(pack, key, EmptyArr)
        found == legacy_find_entry(OnlyDicts(entries.v), id, label)
        popped == Put(pack, key, JSeq(RemoveAt(entries.v, found.index + 1)))
    IN  IF load_all_packs(d).err # "none" THEN Fail(d, "CliError")
        ELSE IF ~IsList(entries) THEN Fail(d, "CliError")
        ELSE IF found.index < 0 THEN Fail(d, "CliError")
        ELSE legacy_save_if_valid(d, IF key = "quests" THEN popped ELSE d.quests,
                                  IF key = "items" THEN popped ELSE d.items,
                                  key = "quests", key = "items")

FindQuestCases ==
    { QuestWith("qa", <<>>), QuestWith("qa", << <<"difficulty", JStr("hard")>> >>),
      QuestWith("qb", <<>>), JNull }
FindItemCases == { ItemA, ItemOf("ia"), ItemOf("ib"), JNull }

FindDisks ==
    { [Disk0 EXCEPT !.quests = Pack("quests", quests)] :
        quests \in SeqsUpTo(FindQuestCases, 0, MaxEntries) }
    \cup
    { [Disk0 EXCEPT !.items = Pack("items", items)] :
        items \in SeqsUpTo(FindItemCases, 0, MaxEntries) }

FindQuestArgs == {"qa", "qb", "qc"}
FindItemArgs == {"ia", "ib", "ic"}

FindInit ==
    /\ disk \in FindDisks
    /\ last = NoRun
    /\ pdoc = Idle /\ plast = Idle /\ vpacks = Idle /\ vout = Idle
    /\ quests_in = Idle /\ dfs = Idle

\* the program ran a delete and exited
Deleted(program, key, id, found, run) ==
    /\ disk' = [disk EXCEPT !.quests = run.quests, !.items = run.items]
    /\ last' = [cmd |-> key \o " delete", program |-> program, key |-> key, id |-> id,
                before |-> disk, found |-> found, err |-> run.err, wrote |-> run.wrote,
                validated |-> run.validated, verdict |-> run.verdict]
    /\ UNCHANGED <<pdoc, plast, vpacks, vout, quests_in, dfs>>

DeleteQuest(quest_id) ==
    Deleted("package", "quests", quest_id,
            find_by_id(disk.quests, "quests", "Quest", quest_id),
            cmd_quests_delete(disk, quest_id))
DeleteItem(item_id) ==
    Deleted("package", "items", item_id,
            find_by_id(disk.items, "items", "Item", item_id),
            cmd_items_delete(disk, item_id))
LegacyDeleteQuest(quest_id) ==
    Deleted("script", "quests", quest_id,
            legacy_find_entry(OnlyDicts(get_entries(disk.quests, "quests")), quest_id, "Quest"),
            legacy_cmd_delete(disk, "quests", quest_id, "Quest"))
LegacyDeleteItem(item_id) ==
    Deleted("script", "items", item_id,
            legacy_find_entry(OnlyDicts(get_entries(disk.items, "items")), item_id, "Item"),
            legacy_cmd_delete(disk, "items", item_id, "Item"))

FindNext ==
    \/ \E quest_id \in FindQuestArgs : DeleteQuest(quest_id)
    \/ \E item_id \in FindItemArgs : DeleteItem(item_id)
    \/ \E quest_id \in FindQuestArgs : LegacyDeleteQuest(quest_id)
    \/ \E item_id \in FindItemArgs : LegacyDeleteItem(item_id)

SpecFind == FindInit /\ [][FindNext]_vars

\* the list the delete searched and the list it left
OldEntries == get_entries(last.before[last.key], last.key)
NewEntries == get_entries(disk[last.key], last.key)
Matches ==
    {i \in DOMAIN OldEntries :
        IsDict(OldEntries[i]) /\ Get(OldEntries[i], "id") = JStr(last.id)}
FirstMatch == CHOOSE i \in Matches : \A j \in Matches : i <= j
EntityOf(key) == IF key = "quests" THEN "Quest" ELSE "Item"

\* the delete found the first match and, if it succeeded, removed that entry alone
DeletedFirstMatch ==
    IF Matches = {}
    THEN /\ last.err # "none"
         /\ last.found.raised = NotFound(EntityOf(last.key), last.id)
         /\ disk = last.before
    ELSE /\ last.found.index = FirstMatch - 1
         /\ last.err = "none" =>
                /\ Len(NewEntries) = Len(OldEntries) - 1
                /\ \A i \in 1..(FirstMatch - 1) : NewEntries[i] = OldEntries[i]
                /\ \A i \in FirstMatch..Len(NewEntries) : NewEntries[i] = OldEntries[i + 1]

\* C27: find returns the index, in the pack's own list, of the first entry
\* whose id is the queried id, and a successful quests delete or items
\* delete leaves the old list with that one entry removed, every other
\* entry unchanged and in order; an id that matches no entry raises a not
\* found error that names the entity kind and the id.
C27_DeleteRemovesFirstMatch ==
    last.cmd \in {"quests delete", "items delete"} => DeletedFirstMatch

\* the same of the package's commands alone
C27_PackageDelete ==
    (last.cmd \in {"quests delete", "items delete"} /\ last.program = "package")
        => DeletedFirstMatch

\* a package delete that removed the first of two entries with the id
C27_Witness ==
    /\ last.cmd = "quests delete" /\ last.program = "package" /\ last.err = "none"
    /\ Cardinality(Matches) = 2 /\ FirstMatch = 1
    /\ NewEntries # <<>> /\ NewEntries[1] # OldEntries[1]

-----------------------------------------------------------------------------
(* SpecCache: one run of a command taken step by step (load, mutate in     *)
(* memory, validate, save), run after run.  vpacks is the ContentPacks     *)
(* object of the run with its id caches, vout the report of the run's      *)
(* validation pass, last the command and where the run stands.             *)

\* ContentPacks._rebuild_id_caches: clear the three sets and refill them
rebuild_all_id_caches(packs) ==
    [packs EXCEPT !.quest_ids = rebuild_id_caches(packs.quests_pack, "quests"),
                  !.item_ids = rebuild_id_caches(packs.items_pack, "items"),
                  !.recipe_ids = rebuild_id_caches(packs.recipes_pack, "recipes")]

\* ContentPacks(...): the sets start empty and __post_init__ rebuilds them
ContentPacks(quests_pack, items_pack, recipes_pack) ==
    rebuild_all_id_caches([quests_pack |-> quests_pack, items_pack |-> items_pack,
                           recipes_pack |-> recipes_pack,
                           quest_ids |-> {}, item_ids |-> {}, recipe_ids |-> {}])

\* a pass that checks the quests' references against the cached id sets
save_if_valid_pass_Cached(packs) ==
    Then(validate_item_pack(packs.items_pack),
    Then(validate_recipe_pack(packs.recipes_pack),
         validate_quest_pack(packs.quests_pack, packs.item_ids, packs.recipe_ids)))

\* the validation pass of _save_if_valid
save_if_valid_pass(packs) ==
    validate_packs(packs.quests_pack, packs.items_pack, packs.recipes_pack)

\* the in-memory mutation of a command: the packs and the store pack after it
Unmutated(packs, store_pack, e) == [err |-> e, packs |-> packs, store_pack |-> store_pack]

mutate_delete(packs, store_pack, c, key) ==
    LET pack == IF key = "quests" THEN packs.quests_pack ELSE packs.items_pack
        entries == get_entries(pack, key)
        index == find_entry(entries, 1, "id", c.id)
        popped == with_entries(pack, key, RemoveAt(entries, index))
    IN  IF index = 0 THEN Unmutated(packs, store_pack, "NotFoundError")
        ELSE [err |-> "none", store_pack |-> store_pack,
              packs |-> IF key = "quests" THEN [packs EXCEPT !.quests_pack = popped]
                        ELSE [packs EXCEPT !.items_pack = popped]]

mutate_set(packs, store_pack, c, key) ==
    LET pack == IF key = "quests" THEN packs.quests_pack
                ELSE IF key = "items" THEN packs.items_pack ELSE store_pack
        field == IF key = "store" THEN "itemId" ELSE "id"
        list == IF key = "store" THEN "items" ELSE key
        entries == get_entries(pack, list)
        index == find_entry(entries, 1, field, c.id)
        parsed == parse_cli_value(c.raw)
        changed == set_by_path(entries[index], c.path, parsed.value)
        updated == with_entries(pack, list, ReplaceAt(entries, index, changed.doc))
    IN  IF index = 0 THEN Unmutated(packs, store_pack, "NotFoundError")
        ELSE IF parsed.err # "none" THEN Unmutated(packs, store_pack, parsed.err)
        ELSE IF changed.err # "none" THEN Unmutated(packs, store_pack, changed.err)
        ELSE [err |-> "none",
              store_pack |-> IF key = "store" THEN updated ELSE store_pack,
              packs |-> IF key = "quests" THEN [packs EXCEPT !.quests_pack = updated]
                        ELSE IF key = "items" THEN [packs EXCEPT !.items_pack = updated]
                        ELSE packs]

mutate(packs, store_pack, c) ==
    IF c.cmd = "quests delete" THEN mutate_delete(packs, store_pack, c, "quests")
    ELSE IF c.cmd = "items delete" THEN mutate_delete(packs, store_pack, c, "items")
    ELSE IF c.cmd = "quests set" THEN mutate_set(packs, store_pack, c, "quests")
    ELSE IF c.cmd = "items set" THEN mutate_set(packs, store_pack, c, "items")
    ELSE mutate_set(packs, store_pack, c, "store")

CacheCommand(cmd, id, path, raw) == [cmd |-> cmd, id |-> id, path |-> path, raw |-> raw]

CacheCommands ==
    { CacheCommand("quests delete", "qa", <<>>, <<>>),
      CacheCommand("quests delete", "qb", <<>>, <<>>),
      CacheCommand("quests delete", "qc", <<>>, <<>>),
      CacheCommand("items delete", "ia", <<>>, <<>>),
      CacheCommand("items delete", "ib", <<>>, <<>>),
      CacheCommand("items set", "ib", <<"id">>, <<"ic">>),
      CacheCommand("items set", "ia", <<"id">>, <<"ic">>),
      CacheCommand("items set", "ib", <<"id">>, <<"Bad", " ", "Id">>),
      CacheCommand("quests set", "qa", <<"steps", "[", "0", "]", ".", "itemId">>, <<"ib">>),
      CacheCommand("quests set", "qb", <<"id">>, <<"qc">>),
      CacheCommand("store set", "ia", <<"itemId">>, <<"ib">>),
      CacheCommand("store set", "ib", <<"buyPrice">>, <<"{", "bad">>) }

CacheDisks ==
    { [quests |-> Pack("quests", quests), items |-> Pack("items", items),
       recipes |-> Pack("recipes", <<RecipeA>>),
       store |-> Pack("items", <<StoreEntry(<<>>)>>)] :
        quests \in { <<QuestA, QuestWith("qb", Requiring(<<"qa">>))>>,
                     <<QuestA, JNull, QuestWith("qb", <<>>)>> },
        items \in { <<ItemA, ItemOf("ib")>>, <<ItemA, ItemOf("Bad Id"), ItemOf("ib")>> } }

NoCommand == [cmd |-> "none", id |-> "", path |-> <<>>, raw |-> <<>>, pc |-> "exit",
              err |-> "none", store_pack |-> NoFile]

CacheInit ==
    /\ disk \in CacheDisks
    /\ last = NoCommand
    /\ vpacks = Idle /\ vout = Idle
    /\ pdoc = Idle /\ plast = Idle /\ quests_in = Idle /\ dfs = Idle

IsStoreCommand == last.cmd = "store set"

\* load_all_packs, and _load_store_pack in a store command
CacheLoad(c) ==
    /\ last.pc \in {"exit", "saved"}
    /\ load_all_packs(disk).err = "none"
    /\ vpacks' = ContentPacks(disk.quests, disk.items, disk.recipes)
    /\ last' = [cmd |-> c.cmd, id |-> c.id, path |-> c.path, raw |-> c.raw, pc |-> "loaded",
                err |-> "none",
                store_pack |-> IF c.cmd = "store set" THEN load_store_pack(disk) ELSE NoFile]
    /\ vout' = Idle
    /\ UNCHANGED <<disk, pdoc, plast, quests_in, dfs>>

\* find, pop or set_by_path on the documents in memory
CacheMutate ==
    /\ last.pc = "loaded"
    /\ LET m == mutate(vpacks, last.store_pack, last) IN
        /\ vpacks' = m.packs
        /\ last' = [last EXCEPT !.pc = IF m.err = "none" THEN "mutated" ELSE "exit",
                                !.err = m.err, !.store_pack = m.store_pack]
    /\ UNCHANGED <<disk, vout, pdoc, plast, quests_in, dfs>>

\* validate_packs in _save_if_valid; _validate_store_pack in a store command
CacheValidate ==
    /\ last.pc = "mutated"
    /\ LET result == IF IsStoreCommand
                     THEN validate_store_pack(last.store_pack, vpacks.item_ids)
                     ELSE save_if_valid_pass(vpacks)
       IN /\ vout' = [result |-> result]
          /\ last' = IF result.raised THEN [last EXCEPT !.pc = "exit", !.err = "TypeError"]
                     ELSE IF result.issues # <<>>
                     THEN [last EXCEPT !.pc = "exit", !.err = "ValidationError"]
                     ELSE [last EXCEPT !.pc = "validated"]
    /\ UNCHANGED <<disk, vpacks, pdoc, plast, quests_in, dfs>>

\* save_quests / save_items: rebuild the caches, then write; _save_store_pack
CacheSave ==
    /\ last.pc = "validated"
    /\ vpacks' = IF IsStoreCommand THEN vpacks ELSE rebuild_all_id_caches(vpacks)
    /\ disk' = IF IsStoreCommand THEN [disk EXCEPT !.store = last.store_pack]
               ELSE IF last.cmd \in {"quests delete", "quests set"}
               THEN [disk EXCEPT !.quests = vpacks.quests_pack]
               ELSE [disk EXCEPT !.items = vpacks.items_pack]
    /\ last' = [last EXCEPT !.pc = "saved"]
    /\ UNCHANGED <<vout, pdoc, plast, quests_in, dfs>>

CacheNext ==
    \/ \E c \in CacheCommands : CacheLoad(c)
    \/ CacheMutate
    \/ CacheValidate
    \/ CacheSave

SpecCache == CacheInit /\ [][CacheNext]_vars

\* the three caches of a ContentPacks object
CacheOf(packs) ==
    [quests |-> packs.quest_ids, items |-> packs.item_ids, recipes |-> packs.recipe_ids]

\* the well-formed ids of the entries of pack[key]
IdsInMemory(pack, key) ==
    LET entries == get_entries(pack, key)
        objects == {entries[i] : i \in {j \in DOMAIN entries : IsDict(entries[j])}}
    IN {Get(entry, "id").v : entry \in {e \in objects : is_valid_content_id(Get(e, "id"))}}

\* the id sets of the documents in memory
DocumentIds(packs) ==
    [quests |-> IdsInMemory(packs.quests_pack, "quests"),
     items |-> IdsInMemory(packs.items_pack, "items"),
     recipes |-> IdsInMemory(packs.recipes_pack, "recipes")]

\* the report a pass over the documents in memory gives with their own ids
FreshReport ==
    IF IsStoreCommand
    THEN validate_store_pack(last.store_pack, IdsInMemory(vpacks.items_pack, "items"))
    ELSE Then(validate_item_pack(vpacks.items_pack),
         Then(validate_recipe_pack(vpacks.recipes_pack),
              validate_quest_pack(vpacks.quests_pack,
                                  IdsInMemory(vpacks.items_pack, "items"),
                                  IdsInMemory(vpacks.recipes_pack, "recipes"))))

\* C24: the id caches change only at a load and at the rebuild of a save;
\* right after the load and right after that rebuild they are exactly the
\* well-formed ids of the documents in memory; and the report of every
\* validation pass is the one the post-mutation documents' own ids give.
C24_CachesFollowDocuments ==
    /\ [][(vpacks # Idle /\ CacheOf(vpacks') # CacheOf(vpacks))
             => last'.pc \in {"loaded", "saved"}]_vars
    /\ [](last.pc \in {"loaded", "saved"} => CacheOf(vpacks) = DocumentIds(vpacks))
    /\ [](vout # Idle => vout.result = FreshReport)

\* an items delete whose pass reported the reference the deletion left
\* dangling while the cache still held the deleted id
C24_Witness ==
    /\ last.cmd = "items delete" /\ last.pc = "exit" /\ last.err = "ValidationError"
    /\ vout # Idle
    /\ vpacks.item_ids # IdsInMemory(vpacks.items_pack, "items")
    /\ vout.result # save_if_valid_pass_Cached(vpacks)

\* a run that saved left the files the command run as one step leaves
RunAsOneStep(d, c) ==
    IF c.cmd = "quests delete" THEN cmd_quests_delete(d, c.id)
    ELSE IF c.cmd = "items delete" THEN cmd_items_delete(d, c.id)
    ELSE IF c.cmd = "quests set" THEN cmd_quests_set(d, c.id, c.path, c.raw)
    ELSE IF c.cmd = "items set" THEN cmd_items_set(d, c.id, c.path, c.raw)
    ELSE cmd_store_set(d, c.id, c.path, c.raw)

StepsAgreeWithRun ==
    [][(last'.pc \in {"exit", "saved"} /\ last.pc \notin {"exit", "saved"})
         => LET run == RunAsOneStep(disk, last') IN
            /\ run.err = last'.err
            /\ disk' = [disk EXCEPT !.quests = run.quests, !.items = run.items,
                                    !.store = run.store]]_vars

====
